---- MODULE Spec2Model ----
(***************************************************************************)
(* Portfolio analytics core of the investment tracker:                     *)
(*   CurrencyConverterService   (lib/services/currencyConverter)           *)
(*   PortfolioCalculationService (lib/services/portfolioCalculations)      *)
(*   Logger                      (lib/utils/logger)                        *)
(*                                                                         *)
(* A JavaScript number is modelled as an exact rational <<n, d>> in lowest *)
(* terms with d > 0; d = 0 marks the non-finite values NaN = <<0, 0>>,     *)
(* Infinity = <<1, 0>> and -Infinity = <<-1, 0>>.  The value undefined is  *)
(* the empty tuple.  Time is counted in half days.  The arithmetic cancels  *)
(* common factors before it multiplies, to keep within the integers of the *)
(* model checker; the values are the same.                                 *)
(***************************************************************************)
EXTENDS Integers, Sequences, FiniteSets, TLC

VARIABLES
    exchangeRates,  \* CurrencyConverterService.exchangeRates : Map<string, number>
    lastUpdated,    \* CurrencyConverterService.lastUpdated
    clock,          \* what new Date() returns, in half days
    refreshPos,     \* position of updateRatesFromAPI: 0 not running, 1..8 the
                    \* outer forEach is about to visit entry refreshPos, 9 after it
    call,           \* the most recent invocation of a public operation
    result,         \* what that invocation returned
    logs,           \* the entries that invocation appended to Logger.logs
    reads,          \* the keys that invocation passed to exchangeRates.get
    logLevel,       \* Logger.logLevel
    investments,    \* the Investment[] handed to the calculation service
    baseCurrency,   \* the reporting currency handed to the calculation service
    metricsResult,  \* the InvestmentWithMetrics[] it returned
    portfolioMetrics, \* the PortfolioMetrics of the most recent calculatePortfolioMetrics
    suggestions,    \* the string[] of the most recent generatePortfolioSuggestions
    queried,        \* the providers RealMarketDataService asked, in order, in its
                    \* most recent getCurrentPrice
    replies,        \* what each provider's fetch brings back at present
    polygonApiKey,  \* process.env.NEXT_PUBLIC_POLYGON_API_KEY || ''
    stored,         \* the rows of the db.investments table, in key order
    loading,        \* InvestmentDashboard's useState values: loading,
    error,          \* error,
    uploading,      \* uploading,
    selectedCurrency, \* selectedCurrency,
    selectedTypes,  \* selectedTypes; investments and portfolioMetrics are the
                    \* two variables above
    rendered,       \* the state values of the last render, which the handlers
                    \* and effects created in it have captured
    renderPending,  \* a state update has been made that React has yet to render
    pendingCalcs,   \* the calculatePortfolioMetrics promises not yet settled,
                    \* in the order they were started
    mountLoad,      \* position of the loadInvestments call of the mount effect
    upload,         \* position of handleCSVUpload and the values it holds
    inputsLeft      \* how many more inputs the user makes

vars == <<exchangeRates, lastUpdated, clock, refreshPos, call, result, logs,
          reads, logLevel, investments, baseCurrency, metricsResult,
          portfolioMetrics, suggestions, queried, replies, polygonApiKey,
          stored, loading, error, uploading, selectedCurrency, selectedTypes,
          rendered, renderPending, pendingCalcs, mountLoad, upload, inputsLeft>>

\* the state of the dashboard component and of the table it stores into
dashVars == <<stored, loading, error, uploading, selectedCurrency, selectedTypes,
              rendered, renderPending, pendingCalcs, mountLoad, upload, inputsLeft>>

\* the state of the market-data service and of the providers it asks, and of
\* the dashboard
appVars == <<queried, replies, polygonApiKey, dashVars>>

\* the dashboard's variables where no dashboard is mounted
InitDash ==
    /\ stored = <<>>
    /\ loading = FALSE
    /\ error = <<>>
    /\ uploading = FALSE
    /\ selectedCurrency = "USD"
    /\ selectedTypes = <<>>
    /\ rendered = <<>>
    /\ renderPending = FALSE
    /\ pendingCalcs = <<>>
    /\ mountLoad = "unmounted"
    /\ upload = <<>>
    /\ inputsLeft = 0

\* that state where neither is used
InitApp ==
    /\ queried = <<>>
    /\ replies = <<>>
    /\ polygonApiKey = ""
    /\ InitDash

(***************************************************************************)
(* Bounds of the model.                                                    *)
(***************************************************************************)
MaxClock == 2
MaxHoldings == 2
MaxPortfolioSize == 6
MaxInvestmentDate == 40
MaxPublicHoldings == 1
MaxMarketHoldings == 1
MaxInputs == 2
MaxInputsBeforeIdle == 1
MaxStored == 1

(***************************************************************************)
(* JavaScript numbers.                                                     *)
(***************************************************************************)
Undefined == <<>>
NaN == <<0, 0>>
Infinity == <<1, 0>>
NegInfinity == <<-1, 0>>
Zero == <<0, 1>>
One == <<1, 1>>

Abs(x) == IF x < 0 THEN -x ELSE x

Sign(x) == IF x < 0 THEN -1 ELSE IF x > 0 THEN 1 ELSE 0

RECURSIVE Gcd(_, _)
Gcd(a, b) == IF b = 0 THEN a ELSE Gcd(b, a % b)

\* the number n / d, d # 0, in lowest terms
Rat(n, d) ==
    LET g == Gcd(Abs(n), Abs(d))
        s == IF d < 0 THEN -1 ELSE 1
    IN  <<(s * n) \div g, (s * d) \div g>>

Num(n) == <<n, 1>>

IsFinite(x) == x[2] # 0
IsNaN(x) == x = NaN

\* x * y
Mul(x, y) ==
    IF IsFinite(x) /\ IsFinite(y)
    THEN LET g == Gcd(Abs(x[1]), y[2])
             h == Gcd(Abs(y[1]), x[2])
         IN  Rat((x[1] \div g) * (y[1] \div h), (x[2] \div h) * (y[2] \div g))
    ELSE IF IsNaN(x) \/ IsNaN(y) \/ x = Zero \/ y = Zero THEN NaN
    ELSE <<Sign(x[1]) * Sign(y[1]), 0>>

\* x / y
Div(x, y) ==
    IF IsNaN(x) \/ IsNaN(y) THEN NaN
    ELSE IF IsFinite(x) /\ IsFinite(y)
         THEN IF y[1] = 0
              THEN (IF x[1] = 0 THEN NaN ELSE <<Sign(x[1]), 0>>)
              ELSE LET g == Gcd(Abs(x[1]), Abs(y[1]))
                       h == Gcd(x[2], y[2])
                   IN  Rat((x[1] \div g) * (y[2] \div h), (x[2] \div h) * (y[1] \div g))
    ELSE IF IsFinite(x) THEN Zero
    ELSE IF IsFinite(y) THEN <<x[1] * (IF y[1] < 0 THEN -1 ELSE 1), 0>>
    ELSE NaN

\* x + y
Add(x, y) ==
    IF IsNaN(x) \/ IsNaN(y) THEN NaN
    ELSE IF IsFinite(x) /\ IsFinite(y)
         THEN LET g == Gcd(x[2], y[2])
              IN  Rat(x[1] * (y[2] \div g) + y[1] * (x[2] \div g), (x[2] \div g) * y[2])
    ELSE IF IsFinite(x) THEN y
    ELSE IF IsFinite(y) THEN x
    ELSE IF x = y THEN x ELSE NaN

Neg(x) == <<-x[1], x[2]>>

\* x - y
Sub(x, y) == Add(x, Neg(y))

\* x > y; false when either side is NaN
Gt(x, y) ==
    IF IsNaN(x) \/ IsNaN(y) THEN FALSE
    ELSE IF IsFinite(x) /\ IsFinite(y)
         THEN LET g == Gcd(x[2], y[2])
              IN  x[1] * (y[2] \div g) > y[1] * (x[2] \div g)
    ELSE IF IsFinite(x) THEN y = NegInfinity
    ELSE IF IsFinite(y) THEN x = Infinity
    ELSE x = Infinity /\ y = NegInfinity

\* x < y and x >= y; false when either side is NaN
Lt(x, y) == Gt(y, x)
Gte(x, y) == Gt(x, y) \/ (x = y /\ ~IsNaN(x))

\* Math.round(x): the nearest integer, a tie going towards +Infinity
MathRound(x) ==
    IF IsFinite(x)
    THEN LET q == x[1] \div x[2]
             r == x[1] - q * x[2]
         IN  Num(IF r >= x[2] - r THEN q + 1 ELSE q)
    ELSE x

\* Math.abs(x)
MathAbs(x) == <<Abs(x[1]), x[2]>>

\* the value null
Null == <<0>>

\* ToBoolean(x) of a number, null or undefined: false for undefined, null, 0
\* and NaN
Truthy(x) == x # Undefined /\ x # Null /\ x # Zero /\ x # NaN

(***************************************************************************)
(* Logger.                                                                 *)
(***************************************************************************)
DEBUG == 0
INFO == 1
WARN == 2
ERROR == 3

LogEntry(level, component, message) ==
    [level |-> level, component |-> component, message |-> message]

\* Logger.log over the calls one operation makes: an entry below logLevel is dropped
Logged(level, entries) == SelectSeq(entries, LAMBDA e : e.level >= level)

(***************************************************************************)
(* CurrencyConverterService.                                               *)
(***************************************************************************)
SupportedCurrencies ==
    {"USD", "AUD", "EUR", "GBP", "JPY", "CAD", "CHF", "INR", "CNY"}

\* the literal `rates` of initializeRates: units of each currency per 1 USD
rates ==
    [c \in SupportedCurrencies |->
        CASE c = "USD" -> Rat(1, 1)
          [] c = "AUD" -> Rat(147, 100)
          [] c = "EUR" -> Rat(85, 100)
          [] c = "GBP" -> Rat(75, 100)
          [] c = "JPY" -> Rat(150, 1)
          [] c = "CAD" -> Rat(133, 100)
          [] c = "CHF" -> Rat(88, 100)
          [] c = "INR" -> Rat(83, 1)
          [] c = "CNY" -> Rat(72, 10)]

\* the key `${from}_${to}` of the map
RateKey(from, to) == <<from, to>>

initializeRatesUndivided ==
    [k \in SupportedCurrencies \X SupportedCurrencies |->
        IF k[1] # k[2] THEN rates[k[2]] ELSE One]

\* the map after the constructor's initializeRates()
initializeRates ==
    [k \in SupportedCurrencies \X SupportedCurrencies |->
        IF k[1] # k[2] THEN Div(rates[k[2]], rates[k[1]]) ELSE One]

\* mockApiResponse.rates of updateRatesFromAPI, in Object.entries order
apiCurrencies == <<"AUD", "EUR", "GBP", "JPY", "CAD", "CHF", "INR", "CNY">>

mockApiResponse ==
    [c \in {apiCurrencies[i] : i \in DOMAIN apiCurrencies} |->
        CASE c = "AUD" -> Rat(147, 100)
          [] c = "EUR" -> Rat(85, 100)
          [] c = "GBP" -> Rat(75, 100)
          [] c = "JPY" -> Rat(150, 1)
          [] c = "CAD" -> Rat(133, 100)
          [] c = "CHF" -> Rat(88, 100)
          [] c = "INR" -> Rat(83, 1)
          [] c = "CNY" -> Rat(72, 10)]

\* the cross rate written for the pair (currency, otherCurrency)
CrossRateInverted(rate, otherRate) == Div(rate, otherRate)

crossRate(rate, otherRate) == Div(otherRate, rate)

\* one visit of the outer forEach of updateRatesFromAPI, for `currency`
updateEntry(table, currency) ==
    LET rate == mockApiResponse[currency]
        others == DOMAIN mockApiResponse \ {currency}
        written == {RateKey("USD", currency), RateKey(currency, "USD")}
                      \cup {RateKey(currency, o) : o \in others}
    IN  [k \in DOMAIN table \cup written |->
            IF k[1] = currency /\ k[2] \in others
                THEN crossRate(rate, mockApiResponse[k[2]])
            ELSE IF k = RateKey(currency, "USD") THEN Div(One, rate)
            ELSE IF k = RateKey("USD", currency) THEN rate
            ELSE table[k]]

\* exchangeRates.get(key)
MapGet(table, key) == IF key \in DOMAIN table THEN table[key] ELSE Undefined

FallbackRateZero == Zero

convertWithoutShortCircuit(table, amount, fromCurrency, toCurrency) ==
    LET rateKey == RateKey(fromCurrency, toCurrency)
        rate == MapGet(table, rateKey)
    IN  IF rate = Undefined
        THEN [value |-> [amount |-> amount, fromCurrency |-> fromCurrency,
                         toCurrency |-> toCurrency, rate |-> One,
                         convertedAmount |-> amount],
              logs |-> <<LogEntry(WARN, "CurrencyConverter", "Exchange rate not found")>>,
              reads |-> {rateKey}]
        ELSE [value |-> [amount |-> amount, fromCurrency |-> fromCurrency,
                         toCurrency |-> toCurrency, rate |-> rate,
                         convertedAmount |-> Mul(amount, rate)],
              logs |-> <<LogEntry(DEBUG, "CurrencyConverter", "Currency conversion")>>,
              reads |-> {rateKey}]

\* the rate of the 1:1 fallback of convert
FallbackRate == One

\* convert(amount, fromCurrency, toCurrency) on `table`: the ConversionResult
\* returned, the logger calls made and the keys read
convert(table, amount, fromCurrency, toCurrency) ==
    IF fromCurrency = toCurrency
    THEN [value |-> [amount |-> amount, fromCurrency |-> fromCurrency,
                     toCurrency |-> toCurrency, rate |-> One,
                     convertedAmount |-> amount],
          logs |-> <<LogEntry(DEBUG, "CurrencyConverter", "Same currency conversion")>>,
          reads |-> {}]
    ELSE LET rateKey == RateKey(fromCurrency, toCurrency)
             rate == MapGet(table, rateKey)
         IN  IF rate = Undefined
             THEN [value |-> [amount |-> amount, fromCurrency |-> fromCurrency,
                              toCurrency |-> toCurrency, rate |-> FallbackRate,
                              convertedAmount |-> amount],
                   logs |-> <<LogEntry(WARN, "CurrencyConverter", "Exchange rate not found")>>,
                   reads |-> {rateKey}]
             ELSE [value |-> [amount |-> amount, fromCurrency |-> fromCurrency,
                              toCurrency |-> toCurrency, rate |-> rate,
                              convertedAmount |-> Mul(amount, rate)],
                   logs |-> <<LogEntry(DEBUG, "CurrencyConverter", "Currency conversion")>>,
                   reads |-> {rateKey}]

getRateDefaultZero(table, fromCurrency, toCurrency) ==
    IF fromCurrency = toCurrency THEN One
    ELSE LET rate == MapGet(table, RateKey(fromCurrency, toCurrency))
         IN  IF Truthy(rate) THEN rate ELSE Zero

\* getRate(fromCurrency, toCurrency) on `table`: exchangeRates.get(rateKey) || 1
getRate(table, fromCurrency, toCurrency) ==
    IF fromCurrency = toCurrency THEN One
    ELSE LET rate == MapGet(table, RateKey(fromCurrency, toCurrency))
         IN  IF Truthy(rate) THEN rate ELSE One

(***************************************************************************)
(* Inputs of the converter's operations.                                   *)
(***************************************************************************)
\* codes outside the supported set, as a caller may pass them
UnsupportedCodes == {"XYZ", "ABC"}

\* the codes the modelled callers pass
CurrencyCodes == {"USD", "AUD", "EUR", "JPY"} \cup UnsupportedCodes

Amounts == {Num(-100), Num(0), Num(100)}

NoCall == [op |-> "none", args |-> <<>>, atRefreshPos |-> 0]

NoHandlerRunningAwaitInLoop == TRUE

\* A public operation starts only when no synchronous code of the service is
\* running: updateRatesFromAPI has no await in its body, so once called it runs
\* to its return before any other call is served.
NoHandlerRunning == refreshPos = 0

(***************************************************************************)
(* The converter's operations.                                             *)
(***************************************************************************)
calcVars == <<investments, baseCurrency, metricsResult, portfolioMetrics, suggestions>>

Convert ==
    /\ NoHandlerRunning
    /\ \E amount \in Amounts, from \in CurrencyCodes, to \in CurrencyCodes :
          LET r == convert(exchangeRates, amount, from, to)
          IN  /\ call' = [op |-> "convert", args |-> <<amount, from, to>>,
                          atRefreshPos |-> refreshPos]
              /\ result' = r.value
              /\ logs' = Logged(logLevel, r.logs)
              /\ reads' = r.reads
    /\ UNCHANGED <<exchangeRates, lastUpdated, clock, refreshPos, logLevel, calcVars, appVars>>

GetRate ==
    /\ NoHandlerRunning
    /\ \E from \in CurrencyCodes, to \in CurrencyCodes :
          /\ call' = [op |-> "getRate", args |-> <<from, to>>,
                      atRefreshPos |-> refreshPos]
          /\ result' = getRate(exchangeRates, from, to)
          /\ logs' = <<>>
          /\ reads' = IF from = to THEN {} ELSE {RateKey(from, to)}
    /\ UNCHANGED <<exchangeRates, lastUpdated, clock, refreshPos, logLevel, calcVars, appVars>>

\* updateRatesFromAPI is called: the try block is entered and mockApiResponse built
UpdateRatesCall ==
    /\ NoHandlerRunning
    /\ refreshPos = 0
    /\ refreshPos' = 1
    /\ call' = [op |-> "updateRatesFromAPI", args |-> <<>>, atRefreshPos |-> 0]
    /\ result' = Undefined
    /\ logs' = <<>>
    /\ reads' = {}
    /\ UNCHANGED <<exchangeRates, lastUpdated, clock, logLevel, calcVars, appVars>>

\* one visit of the outer forEach
UpdateRatesEntry ==
    /\ refreshPos \in 1..Len(apiCurrencies)
    /\ exchangeRates' = updateEntry(exchangeRates, apiCurrencies[refreshPos])
    /\ refreshPos' = refreshPos + 1
    /\ UNCHANGED <<lastUpdated, clock, call, result, logs, reads, logLevel, calcVars, appVars>>

\* this.lastUpdated = new Date().toISOString(); return true
UpdateRatesReturn ==
    /\ refreshPos = Len(apiCurrencies) + 1
    /\ lastUpdated' = clock
    /\ result' = TRUE
    /\ refreshPos' = 0
    /\ UNCHANGED <<exchangeRates, clock, call, logs, reads, logLevel, calcVars, appVars>>

\* time passes
Tick ==
    /\ clock < MaxClock
    /\ clock' = clock + 1
    /\ UNCHANGED <<exchangeRates, lastUpdated, refreshPos, call, result, logs,
                   reads, logLevel, calcVars, appVars>>

\* new CurrencyConverterService(), with the Logger singleton at either level
Init ==
    /\ exchangeRates = initializeRates
    /\ clock = 0
    /\ lastUpdated = 0
    /\ refreshPos = 0
    /\ call = NoCall
    /\ result = Undefined
    /\ logs = <<>>
    /\ reads = {}
    /\ logLevel \in {DEBUG, INFO}
    /\ investments = <<>>
    /\ baseCurrency = "USD"
    /\ metricsResult = <<>>
    /\ portfolioMetrics = Undefined
    /\ suggestions = <<>>
    /\ InitApp

Next ==
    \/ Convert
    \/ GetRate
    \/ UpdateRatesCall
    \/ UpdateRatesEntry
    \/ UpdateRatesReturn
    \/ Tick

Spec == Init /\ [][Next]_vars

(***************************************************************************)
(* PortfolioCalculationService.calculateInvestmentMetrics.                 *)
(***************************************************************************)
\* { ...investment, <computed fields> }
Spread(investment, computed) ==
    [f \in DOMAIN investment \cup DOMAIN computed |->
        IF f \in DOMAIN computed THEN computed[f] ELSE investment[f]]

resolveCurrentPriceNullish(investment) ==
    IF investment.currentPrice # Undefined THEN investment.currentPrice
    ELSE investment.purchasePrice

\* investment.currentPrice || investment.purchasePrice
resolveCurrentPrice(investment) ==
    IF Truthy(investment.currentPrice) THEN investment.currentPrice
    ELSE investment.purchasePrice

\* Math.round(x * 100) / 100
round2(x) == Div(MathRound(Mul(x, Num(100))), Num(100))

profitLossPercentageUnguarded(profitLoss, purchaseValue) ==
    round2(Mul(Div(profitLoss, purchaseValue), Num(100)))

\* purchaseValue > 0 ? Math.round(((profitLoss / purchaseValue) * 100) * 100) / 100 : 0
profitLossPercentage(profitLoss, purchaseValue) ==
    IF Gt(purchaseValue, Zero)
    THEN round2(Mul(Div(profitLoss, purchaseValue), Num(100)))
    ELSE Zero

calculateDaysSinceInvestmentUnfloored(investmentDate, now) ==
    now - 2 * investmentDate

\* calculateDaysSinceInvestment: investmentDate is a day (its midnight), now is
\* in half days
calculateDaysSinceInvestment(investmentDate, now) ==
    (now - 2 * investmentDate) \div 2

calculateAnnualizedReturnFromThirtySix(totalReturnPercentage, days) ==
    IF days < 36 THEN Undefined
    ELSE <<totalReturnPercentage[1], totalReturnPercentage[2], days>>

\* calculateAnnualizedReturn: Math.pow(1 + p / 100, 1 / years) - 1 is kept as
\* the triple of its arguments <<p numerator, p denominator, days>>
calculateAnnualizedReturn(totalReturnPercentage, days) ==
    IF days <= 0 THEN Undefined
    ELSE IF Gt(Rat(1, 10), Rat(days * 100, 36525)) THEN Undefined
    ELSE <<totalReturnPercentage[1], totalReturnPercentage[2], days>>

extremeProfitLossFromHundred(pct) == Gte(MathAbs(pct), Num(100))

\* Math.abs(profitLossPercentage) > 100
extremeProfitLoss(pct) == Gt(MathAbs(pct), Num(100))

\* the body of the map callback: the record returned for one investment and the
\* logger calls made for it
investmentMetrics(investment, base, table, now) ==
    LET currentPrice == resolveCurrentPrice(investment)
        currentValueConversion ==
            convert(table, Mul(currentPrice, investment.quantity),
                    investment.currency, base)
        purchaseValueConversion ==
            convert(table, Mul(investment.purchasePrice, investment.quantity),
                    investment.currency, base)
        currentValueInBaseCurrency == currentValueConversion.value.convertedAmount
        purchaseValueInBaseCurrency == purchaseValueConversion.value.convertedAmount
        profitLoss ==
            round2(Sub(currentValueInBaseCurrency, purchaseValueInBaseCurrency))
        pct == profitLossPercentage(profitLoss, purchaseValueInBaseCurrency)
        daysSinceInvestment ==
            calculateDaysSinceInvestment(investment.investmentDate, now)
        annualizedReturn == calculateAnnualizedReturn(pct, daysSinceInvestment)
    IN  [value |-> Spread(investment,
                      [currentValue |-> currentValueInBaseCurrency,
                       profitLoss |-> profitLoss,
                       profitLossPercentage |-> pct,
                       daysSinceInvestment |-> daysSinceInvestment,
                       annualizedReturn |-> annualizedReturn]),
         logs |-> currentValueConversion.logs \o purchaseValueConversion.logs
                    \o <<LogEntry(DEBUG, "InvestmentMetrics", "Investment calculation")>>
                    \o (IF extremeProfitLoss(pct)
                        THEN <<LogEntry(WARN, "PortfolioCalculation",
                                       <<"Extreme P/L detected for", investment.securityName>>)>>
                        ELSE <<>>)]

RECURSIVE Flatten(_)
Flatten(seqs) ==
    IF seqs = <<>> THEN <<>> ELSE Head(seqs) \o Flatten(Tail(seqs))

calculateInvestmentMetricsSharedFirst(investmentList, base, table, now) ==
    LET each == [i \in 1..Len(investmentList) |->
                    investmentMetrics(
                        [investmentList[i] EXCEPT !.quantity = investmentList[1].quantity],
                        base, table, now)]
    IN  [value |-> [i \in 1..Len(investmentList) |->
                        Spread(investmentList[i],
                               [f \in {"currentValue", "profitLoss", "profitLossPercentage",
                                       "daysSinceInvestment", "annualizedReturn"} |->
                                   each[i].value[f]])],
         logs |-> Flatten([i \in 1..Len(investmentList) |-> each[i].logs])]

\* calculateInvestmentMetrics(investments, baseCurrency): the callbacks hold no
\* await, so investments.map runs them one after the other, in order
calculateInvestmentMetrics(investmentList, base, table, now) ==
    LET each == [i \in 1..Len(investmentList) |->
                    investmentMetrics(investmentList[i], base, table, now)]
    IN  [value |-> [i \in 1..Len(investmentList) |-> each[i].value],
         logs |-> Flatten([i \in 1..Len(investmentList) |-> each[i].logs])]

(***************************************************************************)
(* Inputs of the calculation service.                                      *)
(***************************************************************************)
Holding(country, securityType, securityName, investmentDate, purchasePrice, quantity, currency, currentPrice) ==
    [country |-> country, securityType |-> securityType,
     securityName |-> securityName, investmentDate |-> investmentDate,
     purchasePrice |-> purchasePrice, quantity |-> quantity,
     currency |-> currency, currentPrice |-> currentPrice]

HoldingInputs ==
    { Holding("USA", "Stock", "AAPL", 0, Num(100), Num(10), "USD", Num(110)),
      Holding("USA", "Stock", "IBM", 0, Num(100), Num(10), "USD", Undefined),
      Holding("USA", "Bond", "DLST", 40, Num(100), Num(10), "USD", Num(0)),
      Holding("USA", "ETF", "FREE", 0, Num(0), Num(10), "USD", Num(110)),
      Holding("Australia", "Stock", "NEGP", 40, Num(-100), Num(10), "AUD", Num(110)),
      Holding("Australia", "ETF", "SHRT", 0, Num(100), Num(-1), "AUD", Num(90)),
      Holding("USA", "Stock", "TIEUP", 40, Rat(1, 8), Num(1), "USD", Rat(1, 4)),
      Holding("USA", "Stock", "TIEDN", 0, Rat(1, 4), Num(1), "USD", Rat(1, 8)),
      Holding("Australia", "Stock", "CBA", 0, Num(50), Num(10), "AUD", Rat(525, 10)),
      Holding("Other", "Crypto", "MOON", 40, Num(100), Num(10), "XYZ", Num(350)),
      Holding("Australia", "Bond", "NONE", 0, Num(100), Num(0), "AUD", Num(110)),
      Holding("Other", "Other", "XNOP", 40, Num(100), Num(10), "XYZ", Undefined),
      Holding("USA", "Stock", "DBL", 0, Num(100), Num(10), "USD", Num(200)),
      Holding("USA", "Crypto", "DUST", 0, Num(100), Num(10), "USD", Rat(1, 1000)),
      Holding("USA", "Other", "NEGC", 0, Num(100), Num(10), "USD", Num(-10)) }

TargetCurrencies == {"USD", "AUD"}

\* the moments, in half days, at which the calculation is run
NowChoices == {79, 155}

(***************************************************************************)
(* The calculation service's operations.                                   *)
(***************************************************************************)
CalculateInvestmentMetrics ==
    /\ NoHandlerRunning
    /\ LET r == calculateInvestmentMetrics(investments, baseCurrency,
                                           exchangeRates, clock)
       IN  /\ metricsResult' = r.value
           /\ logs' = Logged(logLevel, r.logs)
    /\ call' = [op |-> "calculateInvestmentMetrics",
                args |-> <<investments, baseCurrency>>, atRefreshPos |-> refreshPos]
    /\ UNCHANGED <<exchangeRates, lastUpdated, clock, refreshPos, result, reads,
                   logLevel, investments, baseCurrency, portfolioMetrics, suggestions, appVars>>

\* new PortfolioCalculationService(), about to be handed a list of holdings
InitCalc ==
    /\ exchangeRates = initializeRates
    /\ clock \in NowChoices
    /\ lastUpdated = 0
    /\ refreshPos = 0
    /\ call = NoCall
    /\ result = Undefined
    /\ logs = <<>>
    /\ reads = {}
    /\ logLevel \in {DEBUG, INFO}
    /\ investments \in UNION {[1..n -> HoldingInputs] : n \in 0..MaxHoldings}
    /\ baseCurrency \in TargetCurrencies
    /\ metricsResult = <<>>
    /\ portfolioMetrics = Undefined
    /\ suggestions = <<>>
    /\ InitApp

NextCalc ==
    \/ CalculateInvestmentMetrics

SpecCalc == InitCalc /\ [][NextCalc]_vars

(***************************************************************************)
(* PortfolioCalculationService.calculatePortfolioMetrics and its helpers.  *)
(***************************************************************************)
\* xs.reduce((sum, x) => sum + x, acc)
RECURSIVE reduceSum(_, _)
reduceSum(acc, xs) ==
    IF xs = <<>> THEN acc ELSE reduceSum(Add(acc, Head(xs)), Tail(xs))

RECURSIVE maxFrom(_, _)
maxFrom(acc, xs) ==
    IF xs = <<>> THEN acc
    ELSE maxFrom(IF Gt(Head(xs), acc) THEN Head(xs) ELSE acc, Tail(xs))

\* Math.max(...xs): -Infinity of no argument, NaN when an argument is NaN
MathMax(xs) ==
    IF \E i \in DOMAIN xs : IsNaN(xs[i]) THEN NaN ELSE maxFrom(NegInfinity, xs)

\* Math.min(a, b) of two integers
MathMin(a, b) == IF a < b THEN a ELSE b

\* xs.filter(keep), keep given as the set of the kept positions
RECURSIVE filterAt(_, _, _)
filterAt(xs, kept, i) ==
    IF i > Len(xs) THEN <<>>
    ELSE (IF i \in kept THEN <<xs[i]>> ELSE <<>>) \o filterAt(xs, kept, i + 1)

\* one insertion of Array.prototype.sort, which is stable: x goes before the
\* first element the comparator puts strictly after it.  The comparator is
\* b.profitLossPercentage - a.profitLossPercentage when descending, and
\* a.profitLossPercentage - b.profitLossPercentage otherwise
RECURSIVE insertByPercentage(_, _, _)
insertByPercentage(sorted, x, descending) ==
    IF sorted = <<>> THEN <<x>>
    ELSE LET y == Head(sorted)
             xFirst == IF descending
                       THEN Gt(x.profitLossPercentage, y.profitLossPercentage)
                       ELSE Lt(x.profitLossPercentage, y.profitLossPercentage)
         IN  IF xFirst THEN <<x>> \o sorted
             ELSE <<y>> \o insertByPercentage(Tail(sorted), x, descending)

RECURSIVE sortByPercentage(_, _, _)
sortByPercentage(done, xs, descending) ==
    IF xs = <<>> THEN done
    ELSE sortByPercentage(insertByPercentage(done, Head(xs), descending),
                          Tail(xs), descending)

\* xs.slice(0, n)
slice0(xs, n) == SubSeq(xs, 1, MathMin(n, Len(xs)))

topPerformersUnsorted(investmentsWithMetrics) ==
    LET gaining == {i \in DOMAIN investmentsWithMetrics :
                       Gt(investmentsWithMetrics[i].profitLossPercentage, Zero)}
    IN  slice0(filterAt(investmentsWithMetrics, gaining, 1), 3)

\* .filter(inv => inv.profitLossPercentage > 0).sort(descending).slice(0, 3)
topPerformers(investmentsWithMetrics) ==
    LET gaining == {i \in DOMAIN investmentsWithMetrics :
                       Gt(investmentsWithMetrics[i].profitLossPercentage, Zero)}
    IN  slice0(sortByPercentage(<<>>, filterAt(investmentsWithMetrics, gaining, 1), TRUE), 3)

\* .filter(inv => inv.profitLossPercentage < 0).sort(ascending).slice(0, 3)
underPerformers(investmentsWithMetrics) ==
    LET losing == {i \in DOMAIN investmentsWithMetrics :
                      Lt(investmentsWithMetrics[i].profitLossPercentage, Zero)}
    IN  slice0(sortByPercentage(<<>>, filterAt(investmentsWithMetrics, losing, 1), FALSE), 3)

\* new Set(investments.map(inv => inv[field])).size
distinctCount(investmentsWithMetrics, field) ==
    Cardinality({investmentsWithMetrics[i][field] : i \in DOMAIN investmentsWithMetrics})

\* Math.max(...investments.map(inv => inv.currentValue / totalValue))
maxConcentration(investmentsWithMetrics) ==
    LET totalValue == reduceSum(Zero, [i \in DOMAIN investmentsWithMetrics |->
                                          investmentsWithMetrics[i].currentValue])
    IN  MathMax([i \in DOMAIN investmentsWithMetrics |->
                    Div(investmentsWithMetrics[i].currentValue, totalValue)])

uncappedPoints(count, each, cap) == count * each

\* Math.min(set.size * each, cap)
cappedPoints(count, each, cap) == MathMin(count * each, cap)

\* calculateDiversificationScore below its first line
diversificationPoints(investmentsWithMetrics) ==
    LET byType == cappedPoints(distinctCount(investmentsWithMetrics, "securityType"), 6, 30)
        byCountry == cappedPoints(distinctCount(investmentsWithMetrics, "country"), 5, 25)
        byCurrency == cappedPoints(distinctCount(investmentsWithMetrics, "currency"), 4, 20)
        score == Add(Num(byType + byCountry + byCurrency),
                     Mul(Sub(One, maxConcentration(investmentsWithMetrics)), Num(25)))
    IN  MathRound(score)

calculateDiversificationScoreNoEmptyCheck(investmentsWithMetrics) ==
    diversificationPoints(investmentsWithMetrics)

calculateDiversificationScore(investmentsWithMetrics) ==
    IF Len(investmentsWithMetrics) = 0 THEN Zero
    ELSE diversificationPoints(investmentsWithMetrics)

highRiskTypes == {"Stock", "Crypto"}

geographicRiskTwoOnly(countries) == IF countries = 2 THEN 10 ELSE 0

\* if (countries.size === 1) riskScore += 20; else if (countries.size === 2) riskScore += 10
geographicRisk(countries) ==
    IF countries = 1 THEN 20 ELSE IF countries = 2 THEN 10 ELSE 0

\* the riskScore that assessRiskLevel accumulates
riskScore(investmentsWithMetrics, diversificationScore) ==
    LET highRisk == {i \in DOMAIN investmentsWithMetrics :
                        investmentsWithMetrics[i].securityType \in highRiskTypes}
        highRiskRatio == Div(Num(Cardinality(highRisk)), Num(Len(investmentsWithMetrics)))
        countries == distinctCount(investmentsWithMetrics, "country")
        currencies == distinctCount(investmentsWithMetrics, "currency")
        concentration == IF Lt(diversificationScore, Num(50)) THEN 30
                         ELSE IF Lt(diversificationScore, Num(75)) THEN 15 ELSE 0
        geographic == geographicRisk(countries)
        currency == IF currencies = 1 THEN 10 ELSE 0
    IN  Add(Mul(highRiskRatio, Num(40)), Num(concentration + geographic + currency))

assessRiskLevelStrict(investmentsWithMetrics, diversificationScore) ==
    LET score == riskScore(investmentsWithMetrics, diversificationScore)
    IN  IF Gt(score, Num(70)) THEN "High"
        ELSE IF Gt(score, Num(40)) THEN "Medium"
        ELSE "Low"

assessRiskLevelMediumFromFifty(investmentsWithMetrics, diversificationScore) ==
    LET score == riskScore(investmentsWithMetrics, diversificationScore)
    IN  IF Gte(score, Num(70)) THEN "High"
        ELSE IF Gte(score, Num(50)) THEN "Medium"
        ELSE "Low"

assessRiskLevel(investmentsWithMetrics, diversificationScore) ==
    LET score == riskScore(investmentsWithMetrics, diversificationScore)
    IN  IF Gte(score, Num(70)) THEN "High"
        ELSE IF Gte(score, Num(40)) THEN "Medium"
        ELSE "Low"

totalInvestmentUnconverted(investmentsWithMetrics, base, table) ==
    [value |-> reduceSum(Zero, [i \in DOMAIN investmentsWithMetrics |->
                                   Mul(investmentsWithMetrics[i].purchasePrice,
                                       investmentsWithMetrics[i].quantity)]),
     logs |-> <<>>]

\* investmentsWithMetrics.reduce((sum, inv) => sum + convert(inv.purchasePrice *
\* inv.quantity, inv.currency, baseCurrency).convertedAmount, 0), and the logger
\* calls of those conversions
totalInvestment(investmentsWithMetrics, base, table) ==
    LET each == [i \in DOMAIN investmentsWithMetrics |->
                    convert(table,
                            Mul(investmentsWithMetrics[i].purchasePrice,
                                investmentsWithMetrics[i].quantity),
                            investmentsWithMetrics[i].currency, base)]
    IN  [value |-> reduceSum(Zero, [i \in DOMAIN investmentsWithMetrics |->
                                       each[i].value.convertedAmount]),
         logs |-> Flatten([i \in DOMAIN investmentsWithMetrics |-> each[i].logs])]

totalProfitLossPercentageUnguarded(totalProfitLoss, invested) ==
    Mul(Div(totalProfitLoss, invested), Num(100))

\* totalInvestment > 0 ? (totalProfitLoss / totalInvestment) * 100 : 0
totalProfitLossPercentage(totalProfitLoss, invested) ==
    IF Gt(invested, Zero) THEN Mul(Div(totalProfitLoss, invested), Num(100))
    ELSE Zero

\* the PortfolioMetrics returned, from the values computed before the return
portfolioMetricsRecord(investmentsWithMetrics, invested, currentValue, diversificationScore) ==
    LET totalProfitLoss == Sub(currentValue, invested)
    IN  [totalInvestment |-> invested,
         currentValue |-> currentValue,
         totalProfitLoss |-> totalProfitLoss,
         totalProfitLossPercentage |-> totalProfitLossPercentage(totalProfitLoss, invested),
         topPerformers |-> topPerformers(investmentsWithMetrics),
         underPerformers |-> underPerformers(investmentsWithMetrics),
         diversificationScore |-> diversificationScore,
         riskLevel |-> assessRiskLevel(investmentsWithMetrics, diversificationScore)]

\* calculatePortfolioMetrics after `await this.calculateInvestmentMetrics(...)` and
\* the reduce of totalInvestment: the PortfolioMetrics, the logger calls of the
\* whole operation, and the internal investmentsWithMetrics
aggregatePortfolio(investmentsWithMetrics, metricsLogs, invested) ==
    LET currentValue == reduceSum(Zero, [i \in DOMAIN investmentsWithMetrics |->
                                            investmentsWithMetrics[i].currentValue])
        diversificationScore == calculateDiversificationScore(investmentsWithMetrics)
    IN  [value |-> portfolioMetricsRecord(investmentsWithMetrics, invested.value,
                                          currentValue, diversificationScore),
         logs |-> <<LogEntry(DEBUG, "Timer", "Started"),
                    LogEntry(INFO, "PortfolioCalculation", "Starting portfolio calculation")>>
                  \o metricsLogs
                  \o invested.logs
                  \o <<LogEntry(INFO, "PortfolioCalculation", "Portfolio metrics calculated"),
                       LogEntry(INFO, "Timer", "Completed"),
                       LogEntry(INFO, "PortfolioCalculation", "Portfolio calculation completed")>>,
         investmentsWithMetrics |-> investmentsWithMetrics]

withTotalInvestment(withMetrics, base, table) ==
    LET investmentsWithMetrics == withMetrics.value \o <<>>  \* the array, built once
        invested == totalInvestment(investmentsWithMetrics, base, table)
    IN  aggregatePortfolio(investmentsWithMetrics, withMetrics.logs, invested)

\* calculatePortfolioMetrics(investments, baseCurrency)
calculatePortfolioMetrics(investmentList, base, table, now) ==
    withTotalInvestment(calculateInvestmentMetrics(investmentList, base, table, now),
                        base, table)

(***************************************************************************)
(* PortfolioCalculationService.generatePortfolioSuggestions.               *)
(***************************************************************************)
DiversifySuggestion == "Consider diversifying across more asset classes and geographic regions"
BondSuggestion == "Consider adding bonds to reduce portfolio volatility"
EtfSuggestion == "ETFs can provide instant diversification at low cost"
RebalanceSuggestion == "Review underperforming investments and consider rebalancing"
TooRiskySuggestion == "Your portfolio risk level exceeds your risk tolerance. Consider reducing exposure to volatile assets"
TooConservativeSuggestion == "Your portfolio may be too conservative for your risk tolerance. Consider adding growth assets"
ConcentrationSuggestion == "High concentration in single investment detected. Consider rebalancing to reduce risk"
CurrencySuggestion == "Consider investments in different currencies to hedge against currency risk"

\* suggestions.push(message) under if (condition)
pushIf(condition, message) == IF condition THEN <<message>> ELSE <<>>

highConcentrationFromThirty(investmentsWithMetrics) ==
    Gte(maxConcentration(investmentsWithMetrics), Rat(3, 10))

\* maxConcentration > 0.3
highConcentration(investmentsWithMetrics) ==
    Gt(maxConcentration(investmentsWithMetrics), Rat(3, 10))

generatePortfolioSuggestions(metrics, investmentsWithMetrics, userRiskTolerance) ==
    LET securityTypes == {investmentsWithMetrics[i].securityType :
                             i \in DOMAIN investmentsWithMetrics}
    IN  pushIf(Lt(metrics.diversificationScore, Num(50)), DiversifySuggestion)
        \o pushIf(Lt(metrics.diversificationScore, Num(75)) /\ "Bond" \notin securityTypes,
                  BondSuggestion)
        \o pushIf(Lt(metrics.diversificationScore, Num(75)) /\ "ETF" \notin securityTypes,
                  EtfSuggestion)
        \o pushIf(Lt(metrics.totalProfitLossPercentage, Num(-10)), RebalanceSuggestion)
        \o pushIf(metrics.riskLevel = "High" /\ userRiskTolerance = "Conservative",
                  TooRiskySuggestion)
        \o pushIf(metrics.riskLevel = "Low" /\ userRiskTolerance = "Aggressive",
                  TooConservativeSuggestion)
        \o pushIf(highConcentration(investmentsWithMetrics), ConcentrationSuggestion)
        \o pushIf(distinctCount(investmentsWithMetrics, "currency") = 1, CurrencySuggestion)

(***************************************************************************)
(* Portfolios handed to calculatePortfolioMetrics.                         *)
(***************************************************************************)
\* the orders in which a generated portfolio cycles through the security types
securityTypeCycles ==
    { <<"Stock", "Bond", "Crypto", "ETF", "Mutual Fund", "Real Estate", "Other">>,
      <<"Bond", "ETF", "Mutual Fund", "Real Estate", "Other", "Stock", "Crypto">> }

countryCycle == <<"USA", "Australia", "Germany", "UK", "Japan", "Canada", "India">>

\* the last three are codes the converter has no rate for
currencyCycle == <<"USD", "AUD", "GBP", "XYZ", "ABC", "QQQ">>

mockNames == <<"MOCK1", "MOCK2", "MOCK3", "MOCK4", "MOCK5", "MOCK6", "MOCK7">>

\* how many entries of a cycle a generated portfolio uses
KindCounts == {1, 2, 6}

PricePatterns == {"mock", "rising", "falling", "unpriced"}

\* <<purchasePrice, currentPrice, quantity>> of the holding at index i (from 0):
\* "mock" is createMockPortfolio's; "rising" gains 0, 10, 10, 20, 20, 30, ... per
\* cent; "falling" loses 20, 20, 25, 25, ... per cent; "unpriced" has no current
\* price and values 300, 300, 300, 100, 100, ...
priceOf(pattern, i) ==
    CASE pattern = "mock" -> <<Num(100 + i * 10), Num(105 + i * 8), Num(5 + i)>>
      [] pattern = "rising" -> <<Num(100), Num(100 + 10 * ((i + 1) \div 2)), Num(10)>>
      [] pattern = "falling" -> <<Num(100), Num(80 - 5 * (i \div 2)), Num(10)>>
      [] pattern = "unpriced" -> <<Num(100), Undefined, Num(IF i < 3 THEN 3 ELSE 1)>>

\* Array.from({ length: size }, (_, i) => createMockInvestment({...}))
createMockPortfolio(size, types, typeCount, countryCount, currencyCount, pattern) ==
    [k \in 1..size |->
        LET i == k - 1
            price == priceOf(pattern, i)
        IN  Holding(countryCycle[(i % countryCount) + 1],
                    types[(i % typeCount) + 1],
                    mockNames[k], 0, price[1], price[3],
                    currencyCycle[(i % currencyCount) + 1], price[2])]

\* holdings with a zero or negative value, a zero price, an unsupported currency
EdgeHoldings ==
    {h \in HoldingInputs :
        h.securityName \in {"AAPL", "NONE", "SHRT", "FREE", "DLST", "MOON"}}

PortfolioInputs ==
    { createMockPortfolio(size, types, typeCount, countryCount, currencyCount, pattern) :
        size \in 0..MaxPortfolioSize, types \in securityTypeCycles,
        typeCount \in KindCounts, countryCount \in KindCounts,
        currencyCount \in KindCounts, pattern \in PricePatterns }
    \cup UNION {[1..n -> EdgeHoldings] : n \in 0..MaxHoldings}

\* userProfile?.riskTolerance; "undefined" when there is no profile
RiskTolerances == {"undefined", "Conservative", "Moderate", "Aggressive"}

(***************************************************************************)
(* The portfolio operations.                                               *)
(***************************************************************************)
CalculatePortfolioMetrics ==
    /\ NoHandlerRunning
    /\ LET r == calculatePortfolioMetrics(investments, baseCurrency,
                                          exchangeRates, clock)
       IN  /\ portfolioMetrics' = r.value
           /\ metricsResult' = r.investmentsWithMetrics
           /\ logs' = Logged(logLevel, r.logs)
    /\ suggestions' = <<>>
    /\ call' = [op |-> "calculatePortfolioMetrics",
                args |-> <<investments, baseCurrency>>, atRefreshPos |-> refreshPos]
    /\ UNCHANGED <<exchangeRates, lastUpdated, clock, refreshPos, result, reads,
                   logLevel, investments, baseCurrency, appVars>>

\* generateSuggestions of the suggestions panel, run when it is handed new
\* metrics: calculateInvestmentMetrics(investments) with the default base
\* currency, then generatePortfolioSuggestions(metrics, investmentsWithMetrics,
\* userProfile?.riskTolerance)
GeneratePortfolioSuggestions ==
    /\ NoHandlerRunning
    /\ call.op = "calculatePortfolioMetrics"
    /\ LET r == calculateInvestmentMetrics(investments, "USD", exchangeRates, clock)
           investmentsWithMetrics == r.value \o <<>>
       IN  /\ metricsResult' = investmentsWithMetrics
           /\ logs' = Logged(logLevel, r.logs)
           /\ \E userRiskTolerance \in RiskTolerances :
                 /\ suggestions' = generatePortfolioSuggestions(
                                       portfolioMetrics, investmentsWithMetrics,
                                       userRiskTolerance)
                 /\ call' = [op |-> "generatePortfolioSuggestions",
                             args |-> <<portfolioMetrics, investmentsWithMetrics,
                                        userRiskTolerance>>,
                             atRefreshPos |-> refreshPos]
    /\ UNCHANGED <<exchangeRates, lastUpdated, clock, refreshPos, result, reads,
                   logLevel, investments, baseCurrency, portfolioMetrics, appVars>>

\* new PortfolioCalculationService(), about to be handed a portfolio
InitPortfolio ==
    /\ exchangeRates = initializeRates
    /\ clock \in {now \in NowChoices : \A other \in NowChoices : now >= other}
    /\ lastUpdated = 0
    /\ refreshPos = 0
    /\ call = NoCall
    /\ result = Undefined
    /\ logs = <<>>
    /\ reads = {}
    /\ logLevel = INFO
    /\ investments \in PortfolioInputs
    /\ baseCurrency \in TargetCurrencies
    /\ metricsResult = <<>>
    /\ portfolioMetrics = Undefined
    /\ suggestions = <<>>
    /\ InitApp

NextPortfolio ==
    \/ CalculatePortfolioMetrics
    \/ GeneratePortfolioSuggestions

SpecPortfolio == InitPortfolio /\ [][NextPortfolio]_vars

(***************************************************************************)
(* calculateInvestmentMetrics on one holding of any age.                   *)
(***************************************************************************)
\* the holdings whose investment date is moved
AgedHoldings ==
    {h \in HoldingInputs : h.securityName \in {"AAPL", "IBM", "DUST", "MOON"}}

\* new PortfolioCalculationService(), about to be handed one holding bought on
\* any day up to MaxInvestmentDate
InitDays ==
    /\ exchangeRates = initializeRates
    /\ clock \in NowChoices
    /\ lastUpdated = 0
    /\ refreshPos = 0
    /\ call = NoCall
    /\ result = Undefined
    /\ logs = <<>>
    /\ reads = {}
    /\ logLevel = INFO
    /\ \E h \in AgedHoldings, investmentDate \in 0..MaxInvestmentDate :
          investments = <<[h EXCEPT !.investmentDate = investmentDate]>>
    /\ baseCurrency \in TargetCurrencies
    /\ metricsResult = <<>>
    /\ portfolioMetrics = Undefined
    /\ suggestions = <<>>
    /\ InitApp

SpecDays == InitDays /\ [][NextCalc]_vars

(***************************************************************************)
(* RealMarketDataService (lib/services/realMarketData).                    *)
(*                                                                         *)
(* What a provider's fetch brings back is a record: throws says whether    *)
(* fetch or response.json() threw, datum is the price field of the reply   *)
(* (undefined when the reply has none).  Alpha Vantage's datum is a string *)
(* and stands here as the number parseFloat makes of it.                   *)
(***************************************************************************)
AlphaVantage == "Alpha Vantage"
Polygon == "Polygon"
YahooFinance == "Yahoo Finance"

\* this.providers
providers == <<AlphaVantage, Polygon, YahooFinance>>

\* provider.supportsExchange(exchange)
supportsExchange(provider, exchange) ==
    CASE provider = AlphaVantage -> exchange \in {"NYSE", "NASDAQ", "ASX", "LSE", "TSE"}
      [] provider = Polygon -> exchange \in {"NYSE", "NASDAQ"}
      [] provider = YahooFinance ->
            exchange \in {"NYSE", "NASDAQ", "ASX", "LSE", "TSE", "TSX"}

\* this.symbolToExchange
symbolToExchange ==
    [symbol \in {"DRO", "FAIR", "IOO", "NDQ", "WES", "ZIP", "AMZN", "CRM", "DRIV",
                 "IBM", "NVDA", "QCOM", "TSLA", "ZS"} |->
        IF symbol \in {"DRO", "FAIR", "IOO", "NDQ", "WES", "ZIP"} THEN "ASX"
        ELSE IF symbol \in {"CRM", "IBM"} THEN "NYSE"
        ELSE "NASDAQ"]

countryToExchange ==
    [country \in {"USA", "Australia", "UK", "Japan", "Canada", "Germany"} |->
        CASE country = "USA" -> "NYSE"
          [] country = "Australia" -> "ASX"
          [] country = "UK" -> "LSE"
          [] country = "Japan" -> "TSE"
          [] country = "Canada" -> "TSX"
          [] country = "Germany" -> "XETRA"]

\* getExchangeForSymbol(symbol, country)
getExchangeForSymbol(symbol, country) ==
    IF symbol \in DOMAIN symbolToExchange THEN symbolToExchange[symbol]
    ELSE IF country \in DOMAIN countryToExchange THEN countryToExchange[country]
    ELSE "NYSE"

\* symbol.split('').reduce((a, b) => a + b.charCodeAt(0), 0), for the symbols
\* of the model
charCodeSum(symbol) ==
    CASE symbol = "IBM" -> 216
      [] symbol = "AMZN" -> 310
      [] symbol = "WES" -> 239
      [] symbol = "RY" -> 171
      [] symbol = "SAP" -> 228
      [] symbol = "CRM" -> 226
      [] symbol = "ZS" -> 173
      [] symbol = "INFY" -> 310

\* getMockPrice(symbol, purchasePrice)
getMockPrice(symbol, purchasePrice) ==
    LET hash == charCodeSum(symbol)
        variation == Rat((hash % 20) - 10, 100)
    IN  Mul(purchasePrice, Add(One, variation))

\* provider.getRealTimePrice(symbol, exchange), given what its fetch brings
\* back; every provider catches what its fetch throws and returns null
getRealTimePrice(provider, fetched, apiKey) ==
    CASE provider = AlphaVantage ->
            IF fetched.throws THEN Null
            ELSE IF fetched.datum # Undefined THEN fetched.datum
            ELSE Null
      [] provider = Polygon ->
            IF apiKey = "" THEN Null
            ELSE IF fetched.throws THEN Null
            ELSE IF Truthy(fetched.datum) THEN fetched.datum
            ELSE Null
      [] provider = YahooFinance ->
            IF fetched.throws THEN Null
            ELSE IF Truthy(fetched.datum) THEN fetched.datum
            ELSE Null

\* price !== null && price > 0
usablePrice(price) == price # Null /\ Gt(price, Zero)

\* the for loop of getCurrentPrice from provider i on, with the providers asked
\* so far; fetches[p] is what provider p's fetch brings back
RECURSIVE tryProvidersStoppingAtNull(_, _, _, _, _, _)
tryProvidersStoppingAtNull(i, investment, exchange, fetches, apiKey, asked) ==
    IF i > Len(providers)
    THEN [value |-> getMockPrice(investment.securityName, investment.purchasePrice),
          queried |-> asked]
    ELSE IF supportsExchange(providers[i], exchange)
    THEN LET price == getRealTimePrice(providers[i], fetches[providers[i]],
                                       apiKey)
         IN  IF usablePrice(price)
             THEN [value |-> price, queried |-> Append(asked, providers[i])]
             ELSE [value |-> getMockPrice(investment.securityName,
                                          investment.purchasePrice),
                   queried |-> Append(asked, providers[i])]
    ELSE tryProvidersStoppingAtNull(i + 1, investment, exchange, fetches,
                                    apiKey, asked)

RECURSIVE tryProviders(_, _, _, _, _, _)
tryProviders(i, investment, exchange, fetches, apiKey, asked) ==
    IF i > Len(providers)
    THEN [value |-> getMockPrice(investment.securityName, investment.purchasePrice),
          queried |-> asked]
    ELSE IF supportsExchange(providers[i], exchange)
    THEN LET price == getRealTimePrice(providers[i], fetches[providers[i]],
                                       apiKey)
         IN  IF usablePrice(price)
             THEN [value |-> price, queried |-> Append(asked, providers[i])]
             ELSE tryProviders(i + 1, investment, exchange, fetches, apiKey,
                               Append(asked, providers[i]))
    ELSE tryProviders(i + 1, investment, exchange, fetches, apiKey, asked)

\* getCurrentPrice(investment): the price returned and the providers asked
getCurrentPrice(investment, fetches, apiKey) ==
    tryProviders(1, investment,
                 getExchangeForSymbol(investment.securityName, investment.country),
                 fetches, apiKey, <<>>)

\* currentPrice || investment.currentPrice || investment.purchasePrice
updatedPrice(currentPrice, investment) ==
    IF Truthy(currentPrice) THEN currentPrice
    ELSE IF Truthy(investment.currentPrice) THEN investment.currentPrice
    ELSE investment.purchasePrice

\* updateAllPrices(investments): getCurrentPrice does not throw, so every
\* holding takes the try branch; fetchesOf[i] is what the providers bring back
\* for holding i
updateAllPrices(investmentList, fetchesOf, apiKey, now) ==
    [i \in 1..Len(investmentList) |->
        LET currentPrice ==
                getCurrentPrice(investmentList[i], fetchesOf[i], apiKey).value
        IN  Spread(investmentList[i],
                   [currentPrice |-> updatedPrice(currentPrice, investmentList[i]),
                    lastUpdated |-> now,
                    updatedAt |-> now])]

(***************************************************************************)
(* Inputs of the market-data service.                                      *)
(***************************************************************************)
\* the price fields a reply can carry
Data == {Undefined, Num(120), Num(125), Zero, Num(-5), NaN}

FetchOutcomes ==
    {[throws |-> TRUE, datum |-> Undefined]}
    \cup {[throws |-> FALSE, datum |-> datum] : datum \in Data}

ProviderNames == {providers[i] : i \in DOMAIN providers}

\* process.env.NEXT_PUBLIC_POLYGON_API_KEY || ''
PolygonApiKeys == {"", "key"}

\* holdings listed on NYSE, NASDAQ and ASX by their symbol, on TSX and XETRA by
\* their country, on NYSE for want of either; one with a current price already
\* and one bought for nothing
MarketHoldings ==
    { Holding("USA", "Stock", "IBM", 0, Num(100), Num(10), "USD", Undefined),
      Holding("USA", "Stock", "AMZN", 0, Num(100), Num(10), "USD", Undefined),
      Holding("Australia", "Stock", "WES", 0, Num(100), Num(10), "AUD", Undefined),
      Holding("Canada", "Stock", "RY", 0, Num(100), Num(10), "USD", Undefined),
      Holding("Germany", "Stock", "SAP", 0, Num(100), Num(10), "USD", Undefined),
      Holding("USA", "Stock", "CRM", 0, Num(100), Num(10), "USD", Num(110)),
      Holding("USA", "ETF", "ZS", 0, Num(0), Num(10), "USD", Undefined),
      Holding("India", "Stock", "INFY", 0, Num(100), Num(10), "USD", Undefined) }

(***************************************************************************)
(* The market-data service's operations.                                   *)
(***************************************************************************)
GetCurrentPrice ==
    /\ \E i \in DOMAIN investments :
          LET r == getCurrentPrice(investments[i], replies, polygonApiKey)
          IN  /\ result' = r.value
              /\ queried' = r.queried
              /\ call' = [op |-> "getCurrentPrice", args |-> <<investments[i]>>,
                          atRefreshPos |-> refreshPos]
    /\ logs' = <<>>
    /\ UNCHANGED <<exchangeRates, lastUpdated, clock, refreshPos, reads, logLevel,
                   calcVars, replies, polygonApiKey, dashVars>>

UpdateAllPrices ==
    /\ result' = updateAllPrices(investments, [i \in DOMAIN investments |-> replies],
                                 polygonApiKey, clock)
    /\ queried' =
          IF investments = <<>> THEN queried
          ELSE getCurrentPrice(investments[Len(investments)], replies,
                               polygonApiKey).queried
    /\ call' = [op |-> "updateAllPrices", args |-> <<investments>>,
                atRefreshPos |-> refreshPos]
    /\ logs' = <<>>
    /\ UNCHANGED <<exchangeRates, lastUpdated, clock, refreshPos, reads, logLevel,
                   calcVars, replies, polygonApiKey, dashVars>>

\* new RealMarketDataService(), about to be handed the holdings, with the
\* providers in any condition
InitMarket ==
    /\ exchangeRates = initializeRates
    /\ clock \in {now \in NowChoices : \A other \in NowChoices : now >= other}
    /\ lastUpdated = 0
    /\ refreshPos = 0
    /\ call = NoCall
    /\ result = Undefined
    /\ logs = <<>>
    /\ reads = {}
    /\ logLevel = INFO
    /\ investments \in UNION {[1..n -> MarketHoldings] : n \in 0..MaxMarketHoldings}
    /\ baseCurrency = "USD"
    /\ metricsResult = <<>>
    /\ portfolioMetrics = Undefined
    /\ suggestions = <<>>
    /\ queried = <<>>
    /\ replies \in [ProviderNames -> FetchOutcomes]
    /\ polygonApiKey \in PolygonApiKeys
    /\ InitDash

NextMarket ==
    \/ GetCurrentPrice
    \/ UpdateAllPrices

SpecMarket == InitMarket /\ [][NextMarket]_vars

(***************************************************************************)
(* The four public operations called in any order, at any moment.          *)
(***************************************************************************)
\* the moments new Date() can return: each of NowChoices and half a day before
Moments == NowChoices \cup {now - 1 : now \in NowChoices}

\* the moments of the same calendar day as now
SameDay(now) == {moment \in Moments : moment \div 2 = now \div 2}

\* time passes between two calls
MomentPasses ==
    /\ \E moment \in Moments :
          /\ moment > clock
          /\ clock' = moment
    /\ UNCHANGED <<exchangeRates, lastUpdated, refreshPos, call, result, logs,
                   reads, logLevel, calcVars, appVars>>

\* convert as the calculation service calls it: an amount into the reporting
\* currency
ConvertIntoBase ==
    /\ Convert
    /\ call'.args[1] = Num(100)
    /\ call'.args[3] = baseCurrency

\* a holding bought on day 0 and one bought on day 40
PublicHoldings == {h \in AgedHoldings : h.securityName \in {"AAPL", "MOON"}}

\* both services constructed, the caller holding up to MaxPublicHoldings holdings
InitPublic ==
    /\ exchangeRates = initializeRates
    /\ clock \in {now \in Moments : \A other \in Moments : now <= other}
    /\ lastUpdated = 0
    /\ refreshPos = 0
    /\ call = NoCall
    /\ result = Undefined
    /\ logs = <<>>
    /\ reads = {}
    /\ logLevel \in {DEBUG, INFO}
    /\ investments \in UNION {[1..n -> PublicHoldings] : n \in 0..MaxPublicHoldings}
    /\ baseCurrency \in TargetCurrencies
    /\ metricsResult = <<>>
    /\ portfolioMetrics = Undefined
    /\ suggestions = <<>>
    /\ InitApp

NextPublic ==
    \/ ConvertIntoBase
    \/ CalculateInvestmentMetrics
    \/ CalculatePortfolioMetrics
    \/ GeneratePortfolioSuggestions
    \/ MomentPasses

SpecPublic == InitPublic /\ [][NextPublic]_vars

(***************************************************************************)
(* csv.ts: parseCSV, validateCSVRow, convertCSVRowToInvestment.  A file is *)
(* the sequence of its lines after the template's header line, each split  *)
(* at its commas and trimmed.                                              *)
(***************************************************************************)
templateHeaders ==
    <<"country", "security_type", "security_name", "investment_date",
      "purchase_price", "quantity", "currency">>

\* headers.forEach((header, index) => { row[header] = values[index] || '' })
rowOf(headers, values) ==
    [header \in {headers[index] : index \in DOMAIN headers} |->
        LET index == CHOOSE i \in DOMAIN headers : headers[i] = header
        IN  IF index <= Len(values) THEN values[index] ELSE ""]

\* parseCSV(csvContent): a row with an empty required field is not pushed
parseCSV(lines) ==
    SelectSeq([i \in DOMAIN lines |-> rowOf(templateHeaders, lines[i])],
              LAMBDA row :
                  /\ row.country # "" /\ row.security_type # ""
                  /\ row.security_name # "" /\ row.investment_date # ""
                  /\ row.purchase_price # "" /\ row.quantity # ""
                  /\ row.currency # "")

\* Number(text), for the cell texts of the model's files
Number(text) ==
    CASE text = "100" -> Num(100)
      [] text = "10" -> Num(10)
      [] text = "" -> Zero
      [] text = "abc" -> NaN

\* /^\d{4}-\d{2}-\d{2}$/.test(dateString), for the date texts of the model's files
matchesDatePattern(dateString) ==
    dateString \in {"2023-01-15", "2023-02-24", "2023-13-45"}

\* the day new Date(dateString) denotes, counted from 2023-01-15, for the texts
\* that denote one; new Date of the others has getTime() NaN
dayOf == ("2023-01-15" :> 0) @@ ("2023-02-24" :> 40)

isValidDate(dateString) ==
    IF ~matchesDatePattern(dateString) THEN FALSE
    ELSE dateString \in DOMAIN dayOf

\* validateCSVRow(row)
validateCSVRow(row) ==
    pushIf(row.country = "", "Country is required")
    \o pushIf(row.security_type = "", "Security type is required")
    \o pushIf(row.security_name = "", "Security name is required")
    \o pushIf(row.investment_date = "", "Investment date is required")
    \o pushIf(row.purchase_price = "" \/ IsNaN(Number(row.purchase_price)),
              "Valid purchase price is required")
    \o pushIf(row.quantity = "" \/ IsNaN(Number(row.quantity)),
              "Valid quantity is required")
    \o pushIf(row.currency = "", "Currency is required")
    \o pushIf(row.investment_date # "" /\ ~isValidDate(row.investment_date),
              "Investment date must be in YYYY-MM-DD format")

\* convertCSVRowToInvestment(row), called at the moment now.  The Investment
\* keeps row.investment_date as text and the calculation applies new Date to
\* it; the model applies it here.  No currentPrice is set.
convertCSVRowToInvestment(row, now) ==
    [country |-> row.country,
     securityType |-> row.security_type,
     securityName |-> row.security_name,
     investmentDate |-> dayOf[row.investment_date],
     purchasePrice |-> Number(row.purchase_price),
     quantity |-> Number(row.quantity),
     currency |-> row.currency,
     currentPrice |-> Undefined,
     createdAt |-> now,
     updatedAt |-> now]

\* rows.forEach((row, index) => ...) of handleCSVUpload: validationErrors, one
\* `Row ${index + 2}: ${errors.join(', ')}` for each row with errors
validationErrors(rows) ==
    LET failing == SelectSeq([i \in DOMAIN rows |-> i],
                             LAMBDA i : validateCSVRow(rows[i]) # <<>>)
    IN  [k \in DOMAIN failing |->
            [row |-> (failing[k] - 1) + 2, errors |-> validateCSVRow(rows[failing[k]])]]

\* and validInvestments
validInvestments(rows, now) ==
    LET valid == SelectSeq(rows, LAMBDA row : validateCSVRow(row) = <<>>)
    IN  [k \in DOMAIN valid |-> convertCSVRowToInvestment(valid[k], now)]

(***************************************************************************)
(* Inputs of the dashboard.                                                *)
(***************************************************************************)
lineAAPL == <<"USA", "Stock", "AAPL", "2023-01-15", "100", "10", "USD">>
lineGOVT == <<"Australia", "Bond", "GOVT", "2023-02-24", "100", "10", "AUD">>
lineBadPrice == <<"USA", "Stock", "IBM", "2023-01-15", "abc", "10", "USD">>
lineBadDate == <<"USA", "ETF", "SPY", "2023-13-45", "100", "10", "USD">>
lineNoQuantity == <<"USA", "Stock", "IBM", "2023-01-15", "abc", "", "USD">>
lineCutShort == <<"USA", "Stock", "IBM", "2023-01-15", "100", "10">>

\* the files the user picks: valid ones, ones with a row that validateCSVRow
\* rejects, and ones with a row that lacks a required field
Files ==
    { <<lineAAPL, lineGOVT>>,
      <<lineAAPL, lineBadPrice>>, <<lineBadDate, lineGOVT>>,
      <<lineNoQuantity, lineBadPrice>>,
      <<lineCutShort>> }

\* what the table holds when the page is opened: rows of an earlier upload
StoredHoldings ==
    { [convertCSVRowToInvestment(rowOf(templateHeaders, lineGOVT), 0)
          EXCEPT !.securityName = "TBND"] }

\* the currencies picked in the CurrencySelector
SelectableCurrencies == TargetCurrencies

NullMetrics == Undefined   \* useState<PortfolioMetrics | null>(null)
NullError == <<>>          \* useState<string | null>(null)

(***************************************************************************)
(* InvestmentDashboard: its state, its effects and its handlers.  A render *)
(* and the effects it schedules are one step; every await of a handler     *)
(* ends a step.  handleRefreshPrices and the table's delete button are     *)
(* left out.                                                               *)
(***************************************************************************)
\* what the dashboard leaves alone
serviceVars == <<exchangeRates, lastUpdated, clock, refreshPos, call, result, logs, reads, logLevel, baseCurrency, metricsResult, suggestions, queried, replies, polygonApiKey>>

InitialCurrency == "USD"   \* useState('USD')

LoadError == [message |-> "Failed to load investments", lines |-> <<>>]
ProcessError == [message |-> "Failed to process CSV file", lines |-> <<>>]
ValidationError(lines) == [message |-> "Validation errors:", lines |-> lines]

\* the values of the useState hooks
stateValues ==
    [investments |-> investments, portfolioMetrics |-> portfolioMetrics,
     loading |-> loading, error |-> error, uploading |-> uploading,
     selectedCurrency |-> selectedCurrency, selectedTypes |-> selectedTypes]

\* investments.filter(inv => selectedTypes.length === 0 ||
\*                           selectedTypes.includes(inv.securityType))
filteredInvestments(investmentList, types) ==
    SelectSeq(investmentList,
              LAMBDA inv : \/ Len(types) = 0
                           \/ \E i \in DOMAIN types : types[i] = inv.securityType)

\* [...new Set(xs)]
RECURSIVE spreadSet(_, _)
spreadSet(done, xs) ==
    IF xs = <<>> THEN done
    ELSE IF \E i \in DOMAIN done : done[i] = Head(xs)
         THEN spreadSet(done, Tail(xs))
         ELSE spreadSet(Append(done, Head(xs)), Tail(xs))

\* [...new Set(investments.map(inv => inv.securityType))]
uniqueTypes(investmentList) ==
    spreadSet(<<>>, [i \in DOMAIN investmentList |-> investmentList[i].securityType])

\* InvestmentTypeFilter: the totalValue of the summary of one type
typeTotalValue(investmentList, type) ==
    round2(reduceSum(Zero, [i \in DOMAIN investmentList |->
                               IF investmentList[i].securityType = type
                               THEN Mul(resolveCurrentPrice(investmentList[i]),
                                        investmentList[i].quantity)
                               ELSE Zero]))

\* .sort((a, b) => b.totalValue - a.totalValue), on the types
RECURSIVE insertByTotalValue(_, _, _)
insertByTotalValue(sorted, type, investmentList) ==
    IF sorted = <<>> THEN <<type>>
    ELSE IF Gt(typeTotalValue(investmentList, type),
               typeTotalValue(investmentList, Head(sorted)))
         THEN <<type>> \o sorted
         ELSE <<Head(sorted)>> \o insertByTotalValue(Tail(sorted), type, investmentList)

RECURSIVE sortByTotalValue(_, _, _)
sortByTotalValue(done, types, investmentList) ==
    IF types = <<>> THEN done
    ELSE sortByTotalValue(insertByTotalValue(done, Head(types), investmentList),
                          Tail(types), investmentList)

\* InvestmentTypeFilter: typeSummaries.map(summary => summary.type)
availableTypes(investmentList) ==
    sortByTotalValue(<<>>, uniqueTypes(investmentList), investmentList)

\* handleTypeToggle(type)
handleTypeToggle(types, type) ==
    IF \E i \in DOMAIN types : types[i] = type
    THEN SelectSeq(types, LAMBDA t : t # type)
    ELSE Append(types, type)

\* what the filter's buttons, as last rendered, hand to onTypeChange
typeChanges ==
    {handleTypeToggle(rendered.selectedTypes, availableTypes(rendered.investments)[i]) :
        i \in DOMAIN availableTypes(rendered.investments)}
    \cup {availableTypes(rendered.investments)}
    \cup (IF Len(rendered.selectedTypes) = 0 THEN {} ELSE {<<>>})

\* a call of portfolioService.calculatePortfolioMetrics that has not settled
calcOf(investmentList, currency, from) ==
    [investments |-> investmentList, baseCurrency |-> currency, from |-> from]

\* what it resolves to
metricsOf(calc) ==
    calculatePortfolioMetrics(calc.investments, calc.baseCurrency, exchangeRates, clock).value

\* the calls that can settle next.  calculatePortfolioMetrics awaits nothing
\* but its own promises, so a call settles within the task that started it and
\* before any call started by a later task.
settlesNext(pending) == IF pending = <<>> THEN {} ELSE {1}

without(xs, i) == SubSeq(xs, 1, i - 1) \o SubSeq(xs, i + 1, Len(xs))

validationNeverStops(errors) == FALSE

\* if (validationErrors.length > 0) { setError(...); return; }
validationStops(errors) == Len(errors) > 0

IdleUpload ==
    [pos |-> "idle", file |-> <<>>, validInvestments |-> <<>>,
     selectedCurrency |-> InitialCurrency, control |-> "none",
     before |-> <<>>, outcome |-> "none"]

\* a portfolioService.calculatePortfolioMetrics promise settles: the code after
\* its await runs.  setPortfolioMetrics is handed a new object, so a render
\* follows whatever the values are.
CalcSettles ==
    /\ \E i \in settlesNext(pendingCalcs) :
          LET calc == pendingCalcs[i]
          IN  /\ portfolioMetrics' = metricsOf(calc)
              /\ pendingCalcs' = without(pendingCalcs, i)
              /\ loading' = IF calc.from = "effect" THEN loading ELSE FALSE
              /\ mountLoad' = IF calc.from = "mountLoad" THEN "done" ELSE mountLoad
              /\ IF calc.from = "upload"
                 THEN /\ upload' = [upload EXCEPT !.pos = "idle", !.outcome = "loaded"]
                      /\ uploading' = FALSE
                 ELSE UNCHANGED <<upload, uploading>>
    /\ renderPending' = TRUE
    /\ UNCHANGED <<stored, investments, error, selectedCurrency, selectedTypes,
                   rendered, inputsLeft, serviceVars>>

\* React renders the component and runs its effects: the one that initialises
\* selectedTypes, whose dependencies are investments and selectedTypes.length,
\* and the one that recalculates, whose dependencies are selectedCurrency and
\* filteredInvestments, a new array in every render
Render ==
    /\ renderPending
    /\ rendered' = stateValues
    /\ LET typesDepsChanged ==
               \/ rendered.investments # investments
               \/ Len(rendered.selectedTypes) # Len(selectedTypes)
           initialiseTypes ==
               typesDepsChanged /\ Len(investments) > 0 /\ Len(selectedTypes) = 0
           recalculate == Len(investments) > 0 /\ Len(selectedTypes) > 0
       IN  /\ selectedTypes' = IF initialiseTypes THEN uniqueTypes(investments)
                               ELSE selectedTypes
           /\ renderPending' = initialiseTypes
           /\ pendingCalcs' =
                 IF recalculate
                 THEN Append(pendingCalcs,
                             calcOf(filteredInvestments(investments, selectedTypes),
                                    selectedCurrency, "effect"))
                 ELSE pendingCalcs
    /\ UNCHANGED <<stored, investments, portfolioMetrics, loading, error, uploading,
                   selectedCurrency, mountLoad, upload, inputsLeft, serviceVars>>

\* loadInvestments of the mount effect, after `await db.investments.toArray()`
MountLoadToArray ==
    /\ mountLoad = "toArray"
    /\ \/ /\ investments' = stored
          /\ IF Len(stored) > 0
             THEN /\ pendingCalcs' = Append(pendingCalcs,
                                            calcOf(stored, InitialCurrency, "mountLoad"))
                  /\ mountLoad' = "calculating"
                  /\ UNCHANGED loading
             ELSE /\ mountLoad' = "done"
                  /\ loading' = FALSE
                  /\ UNCHANGED pendingCalcs
          /\ UNCHANGED error
       \/ /\ error' = LoadError
          /\ loading' = FALSE
          /\ mountLoad' = "done"
          /\ UNCHANGED <<investments, pendingCalcs>>
    /\ renderPending' = TRUE
    /\ UNCHANGED <<stored, portfolioMetrics, uploading, selectedCurrency, selectedTypes,
                   rendered, upload, inputsLeft, serviceVars>>

\* handleCurrencyChange(currency), as created by the last render, up to its await
HandleCurrencyChange ==
    /\ inputsLeft > 0
    /\ inputsLeft' = inputsLeft - 1
    /\ \E currency \in SelectableCurrencies :
          /\ selectedCurrency' = currency
          /\ IF Len(rendered.investments) > 0
             THEN /\ loading' = TRUE
                  /\ pendingCalcs' =
                        Append(pendingCalcs,
                               calcOf(filteredInvestments(rendered.investments,
                                                          rendered.selectedTypes),
                                      currency, "handleCurrencyChange"))
             ELSE UNCHANGED <<loading, pendingCalcs>>
          /\ renderPending' = (\/ renderPending
                               \/ currency # selectedCurrency
                               \/ (Len(rendered.investments) > 0 /\ ~loading))
    /\ UNCHANGED <<stored, investments, portfolioMetrics, error, uploading,
                   selectedTypes, rendered, mountLoad, upload, serviceVars>>

\* handleTypeChange(types), called by a button of the InvestmentTypeFilter,
\* which is shown when there are holdings and metrics
HandleTypeChange ==
    /\ inputsLeft > 0
    /\ inputsLeft' = inputsLeft - 1
    /\ Len(rendered.investments) > 0
    /\ rendered.portfolioMetrics # NullMetrics
    /\ \E types \in typeChanges : selectedTypes' = types
    /\ renderPending' = TRUE
    /\ UNCHANGED <<stored, investments, portfolioMetrics, loading, error, uploading,
                   selectedCurrency, rendered, pendingCalcs, mountLoad, upload,
                   serviceVars>>

\* handleCSVUpload(event) with a file chosen, up to `await file.text()`.  The
\* input is the one of the card shown by the last render, and is disabled
\* while that render had uploading set.
HandleCSVUpload ==
    /\ inputsLeft > 0
    /\ inputsLeft' = inputsLeft - 1
    /\ upload.pos = "idle"
    /\ ~rendered.uploading
    /\ \E file \in Files :
          upload' = [pos |-> "text", file |-> file, validInvestments |-> <<>>,
                     selectedCurrency |-> rendered.selectedCurrency,
                     control |-> IF Len(rendered.investments) > 0
                                 THEN "Add More Investments"
                                 ELSE "Get Started with Your Portfolio",
                     before |-> [stored |-> stored, investments |-> investments,
                                 portfolioMetrics |-> portfolioMetrics],
                     outcome |-> "none"]
    /\ uploading' = TRUE
    /\ error' = NullError
    /\ renderPending' = (renderPending \/ ~uploading \/ error # NullError)
    /\ UNCHANGED <<stored, investments, portfolioMetrics, loading, selectedCurrency,
                   selectedTypes, rendered, pendingCalcs, mountLoad, serviceVars>>

\* the catch and finally blocks of handleCSVUpload
UploadThrows ==
    /\ error' = ProcessError
    /\ uploading' = FALSE
    /\ upload' = [upload EXCEPT !.pos = "idle", !.outcome = "threw"]
    /\ renderPending' = TRUE

\* after `await file.text()`: parse, validate, and either report the errors
\* or call db.investments.clear()
UploadText ==
    /\ upload.pos = "text"
    /\ \/ LET rows == parseCSV(upload.file)
              errors == validationErrors(rows)
          IN  IF validationStops(errors)
              THEN /\ error' = ValidationError(errors)
                   /\ uploading' = FALSE
                   /\ upload' = [upload EXCEPT !.pos = "idle", !.outcome = "invalid"]
                   /\ renderPending' = TRUE
              ELSE /\ upload' = [upload EXCEPT !.pos = "clear",
                                     !.validInvestments = validInvestments(rows, clock)]
                   /\ UNCHANGED <<error, uploading, renderPending>>
       \/ UploadThrows
    /\ UNCHANGED <<stored, investments, portfolioMetrics, loading, selectedCurrency,
                   selectedTypes, rendered, pendingCalcs, mountLoad, inputsLeft,
                   serviceVars>>

\* after `await db.investments.clear()`: call db.investments.bulkAdd
UploadClear ==
    /\ upload.pos = "clear"
    /\ \/ /\ stored' = <<>>
          /\ upload' = [upload EXCEPT !.pos = "bulkAdd"]
          /\ UNCHANGED <<error, uploading, renderPending>>
       \/ /\ UploadThrows
          /\ UNCHANGED stored
    /\ UNCHANGED <<investments, portfolioMetrics, loading, selectedCurrency,
                   selectedTypes, rendered, pendingCalcs, mountLoad, inputsLeft,
                   serviceVars>>

\* after `await db.investments.bulkAdd(validInvestments)`: call loadInvestments,
\* which runs up to its `await db.investments.toArray()`
UploadBulkAdd ==
    /\ upload.pos = "bulkAdd"
    /\ \/ /\ stored' = stored \o upload.validInvestments
          /\ upload' = [upload EXCEPT !.pos = "toArray"]
          /\ loading' = TRUE
          /\ renderPending' = (renderPending \/ ~loading)
          /\ UNCHANGED <<error, uploading>>
       \/ /\ UploadThrows
          /\ UNCHANGED <<stored, loading>>
    /\ UNCHANGED <<investments, portfolioMetrics, selectedCurrency, selectedTypes,
                   rendered, pendingCalcs, mountLoad, inputsLeft, serviceVars>>

\* loadInvestments called by handleCSVUpload, after its
\* `await db.investments.toArray()`; when it returns, handleCSVUpload's finally
\* block runs
UploadToArray ==
    /\ upload.pos = "toArray"
    /\ \/ /\ investments' = stored
          /\ IF Len(stored) > 0
             THEN /\ pendingCalcs' = Append(pendingCalcs,
                                            calcOf(stored, upload.selectedCurrency, "upload"))
                  /\ upload' = [upload EXCEPT !.pos = "calculating"]
                  /\ UNCHANGED <<loading, uploading>>
             ELSE /\ upload' = [upload EXCEPT !.pos = "idle", !.outcome = "loaded"]
                  /\ loading' = FALSE
                  /\ uploading' = FALSE
                  /\ UNCHANGED pendingCalcs
          /\ UNCHANGED error
       \/ /\ error' = LoadError
          /\ loading' = FALSE
          /\ uploading' = FALSE
          /\ upload' = [upload EXCEPT !.pos = "idle", !.outcome = "load failed"]
          /\ UNCHANGED <<investments, pendingCalcs>>
    /\ renderPending' = TRUE
    /\ UNCHANGED <<stored, portfolioMetrics, selectedCurrency, selectedTypes, rendered,
                   mountLoad, inputsLeft, serviceVars>>

\* the page has been opened: the first render is done and the mount effect has
\* called loadInvestments, which has run up to its await
PageOpened(inputs) ==
    /\ exchangeRates = initializeRates
    /\ clock \in {now \in NowChoices : \A other \in NowChoices : now >= other}
    /\ lastUpdated = 0
    /\ refreshPos = 0
    /\ call = NoCall
    /\ result = Undefined
    /\ logs = <<>>
    /\ reads = {}
    /\ logLevel = INFO
    /\ baseCurrency = "USD"
    /\ metricsResult = <<>>
    /\ suggestions = <<>>
    /\ queried = <<>>
    /\ replies = <<>>
    /\ polygonApiKey = ""
    /\ stored \in UNION {[1..n -> StoredHoldings] : n \in 0..MaxStored}
    /\ investments = <<>>
    /\ portfolioMetrics = NullMetrics
    /\ loading = TRUE
    /\ error = NullError
    /\ uploading = FALSE
    /\ selectedCurrency = InitialCurrency
    /\ selectedTypes = <<>>
    /\ rendered = [investments |-> <<>>, portfolioMetrics |-> NullMetrics,
                   loading |-> FALSE, error |-> NullError, uploading |-> FALSE,
                   selectedCurrency |-> InitialCurrency, selectedTypes |-> <<>>]
    /\ renderPending = TRUE
    /\ pendingCalcs = <<>>
    /\ mountLoad = "toArray"
    /\ upload = IdleUpload
    /\ inputsLeft = inputs

InitDashboard == PageOpened(MaxInputs)

NextDashboard ==
    \/ CalcSettles
    \/ Render
    \/ MountLoadToArray
    \/ HandleCurrencyChange
    \/ HandleTypeChange
    \/ HandleCSVUpload
    \/ UploadText
    \/ UploadClear
    \/ UploadBulkAdd
    \/ UploadToArray

SpecDashboard == InitDashboard /\ [][NextDashboard]_vars

\* CalcSettles seen on the queue alone: the oldest pending calculation leaves it
OldestSettles == pendingCalcs # <<>> /\ pendingCalcs' = Tail(pendingCalcs)

\* React renders after a state update, a settled promise's continuation runs,
\* and the database and the file reader answer: the steps no user makes are
\* taken when they stay possible.  The user makes MaxInputsBeforeIdle inputs.
SpecDashboardFair ==
    /\ PageOpened(MaxInputsBeforeIdle)
    /\ [][NextDashboard]_vars
    /\ WF_pendingCalcs(OldestSettles)
    /\ WF_vars(Render)
    /\ WF_vars(MountLoadToArray)
    /\ WF_vars(UploadText)
    /\ WF_vars(UploadClear)
    /\ WF_vars(UploadBulkAdd)
    /\ WF_vars(UploadToArray)

(***************************************************************************)
(* Properties of the currency converter, checked under Spec.               *)
(***************************************************************************)
IsConvertCall == call.op = "convert"
IsGetRateCall == call.op = "getRate"
IsMetricsCall == call.op = "calculateInvestmentMetrics"

HasWarning == \E i \in DOMAIN logs : logs[i].level = WARN

\* C1: convert on a pair of distinct codes with no entry in the rate table
\* returns rate 1 and convertedAmount = amount, echoes both codes and logs a
\* warning; it returns normally.
C1_UnsupportedPairFallsBack ==
    (IsConvertCall /\ call.args[2] # call.args[3]
        /\ RateKey(call.args[2], call.args[3]) \notin DOMAIN exchangeRates)
    => /\ result = [amount |-> call.args[1], fromCurrency |-> call.args[2],
                    toCurrency |-> call.args[3], rate |-> One,
                    convertedAmount |-> call.args[1]]
       /\ \E i \in DOMAIN logs :
             logs[i].level = WARN /\ logs[i].component = "CurrencyConverter"

C1_Witness ==
    /\ IsConvertCall
    /\ call.args = <<Num(100), "XYZ", "USD">>
    /\ result.rate = One
    /\ result.convertedAmount = Num(100)
    /\ HasWarning

\* the units-per-USD table the map currently holds
CurrentBase(c) == exchangeRates[RateKey("USD", c)]

\* C2: the table always holds all 81 ordered pairs of the supported
\* currencies, with rate(A, A) = 1 and rate(A, B) = base[B] / base[A] > 0, and
\* convert on a supported pair returns amount * rate(A, B).
C2_TableHoldsAllCrossRates ==
    /\ DOMAIN exchangeRates = SupportedCurrencies \X SupportedCurrencies
    /\ Cardinality(DOMAIN exchangeRates) = 81
    /\ \A c \in SupportedCurrencies : CurrentBase(c) = rates[c]
    /\ \A a \in SupportedCurrencies, b \in SupportedCurrencies :
          /\ a = b => exchangeRates[RateKey(a, b)] = One
          /\ a # b => /\ exchangeRates[RateKey(a, b)] = Div(CurrentBase(b), CurrentBase(a))
                      /\ Gt(exchangeRates[RateKey(a, b)], Zero)
    /\ (IsConvertCall /\ call.args[2] \in SupportedCurrencies
                      /\ call.args[3] \in SupportedCurrencies)
       => /\ result.rate = exchangeRates[RateKey(call.args[2], call.args[3])]
          /\ result.convertedAmount = Mul(call.args[1], result.rate)

C2_Witness ==
    /\ lastUpdated > 0
    /\ refreshPos = 0
    /\ IsConvertCall
    /\ call.args = <<Num(100), "USD", "AUD">>
    /\ result.rate = Rat(147, 100)
    /\ result.convertedAmount = Num(147)

\* C3: every convert or getRate is served while no refresh is part-way through
\* its rewrite of the table: the table it reads is wholly the one before or
\* wholly the one after a refresh.
C3_ReadsNeverSeePartialRefresh ==
    (IsConvertCall \/ IsGetRateCall) => call.atRefreshPos = 0

C3_Witness ==
    /\ IsConvertCall \/ IsGetRateCall
    /\ reads # {}
    /\ lastUpdated > 0
    /\ call.atRefreshPos = 0

\* C5: for every pair of codes, supported or not, equal or distinct, getRate
\* returns the rate field convert returns; both are 1 for an unsupported pair.
C5_GetRateAgreesWithConvert ==
    /\ \A from \in SupportedCurrencies \cup UnsupportedCodes,
          to \in SupportedCurrencies \cup UnsupportedCodes, x \in Amounts :
          getRate(exchangeRates, from, to)
              = convert(exchangeRates, x, from, to).value.rate
    /\ \A from \in UnsupportedCodes, to \in SupportedCurrencies \cup UnsupportedCodes :
          /\ getRate(exchangeRates, from, to) = One
          /\ getRate(exchangeRates, to, from) = One
    /\ IsGetRateCall
       => result = convert(exchangeRates, Zero, call.args[1], call.args[2]).value.rate

C5_Witness ==
    /\ IsGetRateCall
    /\ call.args = <<"XYZ", "ABC">>
    /\ result = One

\* C6: convert with fromCurrency = toCurrency, supported or not, returns rate 1
\* and the amount itself, reads no key of the rate table and logs no warning.
C6_SameCurrencyIsIdentity ==
    (IsConvertCall /\ call.args[2] = call.args[3])
    => /\ result.rate = One
       /\ result.convertedAmount = call.args[1]
       /\ result.amount = call.args[1]
       /\ reads = {}
       /\ ~HasWarning

C6_Witness ==
    /\ IsConvertCall
    /\ call.args = <<Num(-100), "XYZ", "XYZ">>
    /\ result.convertedAmount = Num(-100)
    /\ reads = {}

\* C7: for all supported A and B, getRate(A, B) * getRate(B, A) = 1 and
\* converting an amount from A to B and back returns the amount (exactly, in
\* the exact arithmetic of the model).
C7_CrossRatesAreReciprocal ==
    \A a \in SupportedCurrencies, b \in SupportedCurrencies :
        /\ Mul(getRate(exchangeRates, a, b), getRate(exchangeRates, b, a)) = One
        /\ \A x \in Amounts :
              convert(exchangeRates,
                      convert(exchangeRates, x, a, b).value.convertedAmount,
                      b, a).value.convertedAmount = x

C7_Witness ==
    /\ IsGetRateCall
    /\ call.args = <<"AUD", "USD">>
    /\ result = Rat(100, 147)
    /\ Mul(result, getRate(exchangeRates, "USD", "AUD")) = One

(***************************************************************************)
(* Properties of calculateInvestmentMetrics, checked under SpecCalc.       *)
(***************************************************************************)
MetricFields ==
    {"currentValue", "profitLoss", "profitLossPercentage", "daysSinceInvestment",
     "annualizedReturn"}

Reverse(seq) == [i \in 1..Len(seq) |-> seq[Len(seq) + 1 - i]]

\* what the service returns for a list, with the table and clock of this state
MetricsOf(investmentList) ==
    calculateInvestmentMetrics(investmentList, baseCurrency, exchangeRates, clock).value

\* holdings added to a list to see whether the others' metrics move
ProbeHoldings ==
    {h \in HoldingInputs : h.securityName \in {"AAPL", "SHRT", "MOON", "NONE"}}

\* the state part of C8
C8_ResultIsPerHolding ==
    IsMetricsCall =>
        /\ Len(metricsResult) = Len(investments)
        /\ \A i \in 1..Len(investments) :
              /\ DOMAIN metricsResult[i] = DOMAIN investments[i] \cup MetricFields
              /\ \A f \in DOMAIN investments[i] :
                    metricsResult[i][f] = investments[i][f]
              /\ metricsResult[i] = MetricsOf(<<investments[i]>>)[1]
        /\ \A h \in ProbeHoldings :
              /\ SubSeq(MetricsOf(Append(investments, h)), 1, Len(investments))
                    = metricsResult
              /\ Tail(MetricsOf(<<h>> \o investments)) = metricsResult
        /\ MetricsOf(Reverse(investments)) = Reverse(metricsResult)
        /\ call.args[1] = investments

\* C8: calculateInvestmentMetrics returns one record per holding, in order,
\* carrying the holding's own fields unchanged plus its metrics; the metrics
\* of holding i are those it gets alone, and adding, removing or reordering
\* other holdings does not change them; the input list is not modified.
C8_MetricsArePerHoldingAndInputsKept ==
    /\ []C8_ResultIsPerHolding
    /\ [][IsMetricsCall' => investments' = investments]_vars

C8_Witness ==
    /\ IsMetricsCall
    /\ Len(investments) = 2
    /\ investments[1].quantity # investments[2].quantity
    /\ metricsResult[2].securityName = investments[2].securityName
    /\ metricsResult[1].profitLoss # metricsResult[2].profitLoss

\* value * quantity of a holding, in the target currency
InTarget(price, investment) ==
    Mul(Mul(price, investment.quantity),
        getRate(exchangeRates, investment.currency, baseCurrency))

\* C9 as stated: currentPrice absent => the purchase price is used and
\* profitLoss = profitLossPercentage = 0; currentPrice present, 0 included =>
\* that price is used.
C9_Original_PresentZeroPriceIsUsed ==
    IsMetricsCall =>
        \A i \in 1..Len(investments) :
            LET inv == investments[i]
                m == metricsResult[i]
            IN  IF inv.currentPrice = Undefined
                THEN /\ m.currentValue = InTarget(inv.purchasePrice, inv)
                     /\ m.profitLoss = Zero
                     /\ m.profitLossPercentage = Zero
                ELSE m.currentValue = InTarget(inv.currentPrice, inv)

\* C9, amended: currentPrice absent or 0 => the purchase price is used and
\* profitLoss = profitLossPercentage = 0; currentPrice a non-zero number =>
\* that price is used.
C9_FalsyPriceFallsBackToPurchasePrice ==
    IsMetricsCall =>
        \A i \in 1..Len(investments) :
            LET inv == investments[i]
                m == metricsResult[i]
            IN  IF inv.currentPrice = Undefined \/ inv.currentPrice = Zero
                THEN /\ m.currentValue = InTarget(inv.purchasePrice, inv)
                     /\ m.profitLoss = Zero
                     /\ m.profitLossPercentage = Zero
                ELSE m.currentValue = InTarget(inv.currentPrice, inv)

C9_Witness ==
    /\ IsMetricsCall
    /\ \E i \in 1..Len(investments) :
          /\ investments[i].currentPrice = Zero
          /\ metricsResult[i].currentValue = Num(1000)
          /\ metricsResult[i].profitLoss = Zero
    /\ \E i \in 1..Len(investments) :
          /\ investments[i].currentPrice = Undefined
          /\ metricsResult[i].currentValue # Zero

\* y is x rounded to 2 decimals, a tie going up: 100 y is the integer k with
\* k - 1/2 <= 100 x < k + 1/2
IsRoundedTo2(y, x) ==
    /\ IsFinite(x) /\ IsFinite(y)
    /\ Mul(y, Num(100))[2] = 1
    /\ ~Gt(Sub(y, Rat(1, 200)), x)
    /\ Gt(Add(y, Rat(1, 200)), x)

\* C10: profitLoss = round2(currentValue - purchaseValueInTarget);
\* profitLossPercentage = round2(100 * profitLoss / purchaseValueInTarget) when
\* purchaseValueInTarget > 0 and exactly 0 otherwise, hence always finite;
\* purchase 100, current 110, quantity 10 in the target currency gives 100 and 10.
C10_ProfitLossRoundedAndGuarded ==
    IsMetricsCall =>
        \A i \in 1..Len(investments) :
            LET inv == investments[i]
                m == metricsResult[i]
                pv == InTarget(inv.purchasePrice, inv)
            IN  /\ IsRoundedTo2(m.profitLoss, Sub(m.currentValue, pv))
                /\ Gt(pv, Zero) =>
                      IsRoundedTo2(m.profitLossPercentage,
                                   Div(Mul(Num(100), m.profitLoss), pv))
                /\ ~Gt(pv, Zero) => m.profitLossPercentage = Zero
                /\ IsFinite(m.profitLossPercentage)
                /\ (inv.purchasePrice = Num(100) /\ inv.currentPrice = Num(110)
                      /\ inv.quantity = Num(10) /\ inv.currency = baseCurrency)
                   => m.profitLoss = Num(100) /\ m.profitLossPercentage = Num(10)

C10_Witness ==
    /\ IsMetricsCall
    /\ \E i \in 1..Len(investments) :
          /\ investments[i].purchasePrice = Zero
          /\ metricsResult[i].profitLoss = Num(1100)
          /\ metricsResult[i].profitLossPercentage = Zero
    /\ \E i \in 1..Len(investments) :
          /\ investments[i].purchasePrice = Rat(1, 8)
          /\ baseCurrency = "USD"
          /\ metricsResult[i].profitLoss = Rat(13, 100)

(***************************************************************************)
(* Properties of calculatePortfolioMetrics and generatePortfolioSuggestions,*)
(* checked under SpecPortfolio.                                            *)
(***************************************************************************)
IsPortfolioCall == call.op = "calculatePortfolioMetrics"
IsSuggestionsCall == call.op = "generatePortfolioSuggestions"

Cent == Rat(1, 100)

\* |x - y| < 0.01
WithinCent(x, y) == Lt(MathAbs(Sub(x, y)), Cent)

AllSupported(investmentList) ==
    \A i \in DOMAIN investmentList : investmentList[i].currency \in SupportedCurrencies

\* C11: for every portfolio and target currency,
\* |totalInvestment + totalProfitLoss - currentValue| < 0.01, currentValue is the
\* sum of the holdings' currentValue, totalInvestment is the sum of the
\* holdings' purchase values converted to the target, and
\* totalProfitLossPercentage is 100 * totalProfitLoss / totalInvestment when
\* totalInvestment > 0 and 0 otherwise.
C11_TotalsAreConsistent ==
    IsPortfolioCall =>
        LET m == portfolioMetrics
            perHolding == MetricsOf(investments)
        IN  /\ WithinCent(Add(m.totalInvestment, m.totalProfitLoss), m.currentValue)
            /\ m.currentValue =
                  reduceSum(Zero, [i \in DOMAIN investments |-> perHolding[i].currentValue])
            /\ m.totalInvestment =
                  reduceSum(Zero, [i \in DOMAIN investments |->
                                     InTarget(investments[i].purchasePrice, investments[i])])
            /\ Gt(m.totalInvestment, Zero) =>
                  m.totalProfitLossPercentage =
                      Div(Mul(Num(100), m.totalProfitLoss), m.totalInvestment)
            /\ ~Gt(m.totalInvestment, Zero) => m.totalProfitLossPercentage = Zero

C11_Witness ==
    /\ IsPortfolioCall
    /\ Len(investments) >= 2
    /\ \E i, j \in DOMAIN investments : investments[i].currency # investments[j].currency
    /\ Gt(portfolioMetrics.totalInvestment, Zero)
    /\ portfolioMetrics.totalProfitLoss # Zero
    /\ portfolioMetrics.totalProfitLossPercentage # Zero

\* C12: when every holding is in a supported currency, totalProfitLossPercentage
\* is the same, within 0.01, whichever supported currency is the target.
C12_PercentageIsCurrencyInvariant ==
    (IsPortfolioCall /\ AllSupported(investments)) =>
        \A target \in SupportedCurrencies :
            WithinCent(calculatePortfolioMetrics(investments, target, exchangeRates,
                                                 clock).value.totalProfitLossPercentage,
                       portfolioMetrics.totalProfitLossPercentage)

C12_Witness ==
    /\ IsPortfolioCall
    /\ AllSupported(investments)
    /\ Cardinality({investments[i].currency : i \in DOMAIN investments}) >= 3
    /\ portfolioMetrics.totalProfitLossPercentage # Zero

\* the positions of the holdings whose profitLossPercentage is > 0, and < 0
Gainers(perHolding) ==
    {i \in DOMAIN perHolding : Gt(perHolding[i].profitLossPercentage, Zero)}
Losers(perHolding) ==
    {i \in DOMAIN perHolding : Lt(perHolding[i].profitLossPercentage, Zero)}

\* `listed` holds the min(3, |candidates|) best of the candidates, best first;
\* better(x, y) is "x ranks at least as high as y"
IsBestThree(listed, perHolding, candidates, better(_, _)) ==
    /\ Len(listed) = MathMin(3, Cardinality(candidates))
    /\ \A k \in DOMAIN listed : \E i \in candidates : listed[k] = perHolding[i]
    /\ \A k, l \in DOMAIN listed :
          k < l => better(listed[k].profitLossPercentage, listed[l].profitLossPercentage)
    /\ \A i \in candidates :
          \/ \E k \in DOMAIN listed : listed[k] = perHolding[i]
          \/ \A k \in DOMAIN listed :
                better(listed[k].profitLossPercentage, perHolding[i].profitLossPercentage)
    \* as many copies listed as there are, or as outrank the first one left out
    /\ \A k \in DOMAIN listed :
          Cardinality({l \in DOMAIN listed : listed[l] = listed[k]})
              <= Cardinality({i \in candidates : perHolding[i] = listed[k]})

\* C13: topPerformers is the first 3 of the holdings with profitLossPercentage
\* > 0 sorted descending, underPerformers the first 3 of those with
\* profitLossPercentage < 0 sorted ascending: each has at most 3 entries, a
\* holding at exactly 0 is in neither, none is in both, and no holding left out
\* outranks a listed one.
C13_PerformersAreBestAndWorstThree ==
    IsPortfolioCall =>
        LET perHolding == MetricsOf(investments)
            top == portfolioMetrics.topPerformers
            under == portfolioMetrics.underPerformers
        IN  /\ Len(top) <= 3 /\ Len(under) <= 3
            /\ IsBestThree(top, perHolding, Gainers(perHolding), LAMBDA x, y : Gte(x, y))
            /\ IsBestThree(under, perHolding, Losers(perHolding), LAMBDA x, y : Gte(y, x))
            /\ \A k \in DOMAIN top : Gt(top[k].profitLossPercentage, Zero)
            /\ \A k \in DOMAIN under : Lt(under[k].profitLossPercentage, Zero)
            /\ \A k \in DOMAIN top, l \in DOMAIN under : top[k] # under[l]
            /\ \A i \in DOMAIN perHolding :
                  perHolding[i].profitLossPercentage = Zero =>
                      /\ \A k \in DOMAIN top : top[k] # perHolding[i]
                      /\ \A k \in DOMAIN under : under[k] # perHolding[i]

\* four or more gaining holdings, the best of them not the first in the list
C13_Witness ==
    /\ IsPortfolioCall
    /\ Cardinality(Gainers(metricsResult)) >= 4
    /\ Len(portfolioMetrics.topPerformers) = 3
    /\ \E i \in Gainers(metricsResult) :
          /\ \A j \in Gainers(metricsResult) : i <= j
          /\ metricsResult[i] # portfolioMetrics.topPerformers[1]
          /\ \A k \in 1..3 : metricsResult[i] # portfolioMetrics.topPerformers[k]

\* every price and quantity of the portfolio is > 0 (a current price may be absent)
AllPositive(investmentList) ==
    \A i \in DOMAIN investmentList :
        /\ Gt(investmentList[i].purchasePrice, Zero)
        /\ Gt(investmentList[i].quantity, Zero)
        /\ investmentList[i].currentPrice # Undefined =>
              Gt(investmentList[i].currentPrice, Zero)

\* x is an integer between lo and hi
IsIntegerIn(x, lo, hi) == IsFinite(x) /\ x[2] = 1 /\ lo <= x[1] /\ x[1] <= hi

\* C14: for a non-empty portfolio with positive prices and quantities
\* diversificationScore is a finite integer between 0 and 100; for the empty
\* portfolio it is exactly 0.
C14_DiversificationScoreInRange ==
    IsPortfolioCall =>
        /\ investments = <<>> => portfolioMetrics.diversificationScore = Zero
        /\ (investments # <<>> /\ AllPositive(investments)) =>
              IsIntegerIn(portfolioMetrics.diversificationScore, 0, 100)

\* six security types, countries and currencies: every cap is exceeded
C14_Witness ==
    /\ IsPortfolioCall
    /\ AllPositive(investments)
    /\ distinctCount(investments, "securityType") >= 6
    /\ distinctCount(investments, "country") >= 6
    /\ distinctCount(investments, "currency") >= 6
    /\ Gte(portfolioMetrics.diversificationScore, Num(90))

\* C15: every ratio of calculatePortfolioMetrics and generatePortfolioSuggestions
\* is guarded against a zero denominator: whatever the portfolio (a zero
\* purchase value, no holding, a total current value of 0), the percentages,
\* the diversification score, the risk score and the largest share are finite.
C15_RatiosAreGuarded ==
    /\ IsPortfolioCall =>
          /\ IsFinite(portfolioMetrics.totalProfitLossPercentage)
          /\ \A i \in DOMAIN metricsResult : IsFinite(metricsResult[i].profitLossPercentage)
          /\ IsFinite(portfolioMetrics.diversificationScore)
          /\ IsFinite(riskScore(metricsResult, portfolioMetrics.diversificationScore))
    /\ IsSuggestionsCall => IsFinite(maxConcentration(call.args[2]))

\* the number of holdings whose category is Stock or Crypto
HighRiskCount(investmentList) ==
    Cardinality({i \in DOMAIN investmentList :
                    investmentList[i].securityType \in {"Stock", "Crypto"}})

\* riskScore minus its high-risk term: 30 or 15 or 0 for the diversification
\* score, 20 or 10 or 0 for the countries, 10 or 0 for the currencies
RiskAddends(investmentList, diversificationScore) ==
    (IF Lt(diversificationScore, Num(50)) THEN 30
     ELSE IF Lt(diversificationScore, Num(75)) THEN 15 ELSE 0)
    + (IF distinctCount(investmentList, "country") = 1 THEN 20
       ELSE IF distinctCount(investmentList, "country") = 2 THEN 10 ELSE 0)
    + (IF distinctCount(investmentList, "currency") = 1 THEN 10 ELSE 0)

\* riskScore * n for a portfolio of n holdings, an integer
ScaledRiskScore(investmentList, diversificationScore) ==
    40 * HighRiskCount(investmentList)
        + RiskAddends(investmentList, diversificationScore) * Len(investmentList)

\* C16: for a non-empty portfolio riskLevel is High iff riskScore >= 70, Medium
\* iff 40 <= riskScore < 70 and Low iff riskScore < 40, riskScore being 40 times
\* the fraction of Stock and Crypto holdings plus the three addends; exactly 70
\* is High and exactly 40 is Medium.
C16_RiskLevelFollowsRiskScore ==
    (IsPortfolioCall /\ investments # <<>>) =>
        LET n == Len(investments)
            scaled == ScaledRiskScore(investments, portfolioMetrics.diversificationScore)
        IN  /\ portfolioMetrics.riskLevel = "High" <=> scaled >= 70 * n
            /\ portfolioMetrics.riskLevel = "Medium" <=> (40 * n <= scaled /\ scaled < 70 * n)
            /\ portfolioMetrics.riskLevel = "Low" <=> scaled < 40 * n

\* a riskScore of exactly 70
C16_Witness ==
    /\ IsPortfolioCall
    /\ investments # <<>>
    /\ ScaledRiskScore(investments, portfolioMetrics.diversificationScore)
          = 70 * Len(investments)
    /\ portfolioMetrics.riskLevel = "High"

\* P': every holding of P given the same category, country and currency
Concentrated(investmentList, securityType, country, currency) ==
    [i \in DOMAIN investmentList |->
        [investmentList[i] EXCEPT !.securityType = securityType,
                                  !.country = country, !.currency = currency]]

\* the riskScore assessRiskLevel reaches for a portfolio, in this state's target
RiskScoreOf(investmentList) ==
    LET investmentsWithMetrics == MetricsOf(investmentList) \o <<>>
    IN  riskScore(investmentsWithMetrics,
                  calculateDiversificationScore(investmentsWithMetrics))

\* the categories, countries and currencies tried for P'
CommonCategories == {"Stock", "Crypto", "Bond", "Other"}
CommonCountries == {"USA"}
CommonCurrencies == {"USD", "XYZ"}

C18_EmptyPortfolioIsAllZero ==
    (IsPortfolioCall /\ investments = <<>>) =>
        /\ portfolioMetrics.totalInvestment = Zero
        /\ portfolioMetrics.currentValue = Zero
        /\ portfolioMetrics.totalProfitLoss = Zero
        /\ portfolioMetrics.totalProfitLossPercentage = Zero
        /\ portfolioMetrics.topPerformers = <<>>
        /\ portfolioMetrics.underPerformers = <<>>
        /\ portfolioMetrics.diversificationScore = Zero
        /\ portfolioMetrics.riskLevel \in {"Low", "Medium", "High"}
        /\ \A target \in SupportedCurrencies \cup UnsupportedCodes, now \in NowChoices :
              calculatePortfolioMetrics(<<>>, target, exchangeRates, now).value
                  = portfolioMetrics

C18_Witness ==
    /\ IsPortfolioCall
    /\ investments = <<>>
    /\ baseCurrency = "AUD"
    /\ metricsResult = <<>>
    /\ portfolioMetrics.riskLevel = "Low"

\* some holding's share of the total current value is above 0.30
SomeShareAboveThirty(investmentsWithMetrics) ==
    LET total == reduceSum(Zero, [i \in DOMAIN investmentsWithMetrics |->
                                     investmentsWithMetrics[i].currentValue])
    IN  \E i \in DOMAIN investmentsWithMetrics :
            Gt(Div(investmentsWithMetrics[i].currentValue, total), Rat(3, 10))

HoldsType(investmentsWithMetrics, securityType) ==
    \E i \in DOMAIN investmentsWithMetrics :
        investmentsWithMetrics[i].securityType = securityType

\* the eight rules in their order, each as <<matches, message>>
SuggestionRules(metrics, investmentsWithMetrics, tolerance) ==
    << <<Lt(metrics.diversificationScore, Num(50)), DiversifySuggestion>>,
       <<Lt(metrics.diversificationScore, Num(75))
            /\ ~HoldsType(investmentsWithMetrics, "Bond"), BondSuggestion>>,
       <<Lt(metrics.diversificationScore, Num(75))
            /\ ~HoldsType(investmentsWithMetrics, "ETF"), EtfSuggestion>>,
       <<Lt(metrics.totalProfitLossPercentage, Num(-10)), RebalanceSuggestion>>,
       <<metrics.riskLevel = "High" /\ tolerance = "Conservative", TooRiskySuggestion>>,
       <<metrics.riskLevel = "Low" /\ tolerance = "Aggressive", TooConservativeSuggestion>>,
       <<SomeShareAboveThirty(investmentsWithMetrics), ConcentrationSuggestion>>,
       <<distinctCount(investmentsWithMetrics, "currency") = 1, CurrencySuggestion>> >>

\* the messages of the matching rules, in rule order
MatchingMessages(rules) ==
    LET matching == SelectSeq(rules, LAMBDA rule : rule[1])
    IN  [k \in DOMAIN matching |-> matching[k][2]]

C19_SuggestionsMatchRules ==
    IsSuggestionsCall =>
        /\ suggestions = MatchingMessages(SuggestionRules(call.args[1], call.args[2],
                                                          call.args[3]))
        /\ \A k, l \in DOMAIN suggestions : suggestions[k] = suggestions[l] => k = l

\* C19: generatePortfolioSuggestions returns exactly the messages of the rules
\* that match, each once and in the fixed order of the eight rules (a largest
\* share of exactly 0.30 does not match rule 7), the empty list when none
\* matches, and leaves its inputs as they were.
C19_SuggestionsAreTheMatchingRules ==
    /\ []C19_SuggestionsMatchRules
    /\ [][IsSuggestionsCall' =>
              /\ investments' = investments
              /\ portfolioMetrics' = portfolioMetrics
              /\ call'.args[1] = portfolioMetrics]_vars

\* the largest share is exactly 0.30 and the concentration message is not given
C19_Witness ==
    /\ IsSuggestionsCall
    /\ maxConcentration(metricsResult) = Rat(3, 10)
    /\ \A k \in DOMAIN suggestions : suggestions[k] # ConcentrationSuggestion
    /\ Len(suggestions) >= 3

(***************************************************************************)
(* The extreme profit/loss warning, checked under SpecCalc.                *)
(***************************************************************************)
\* the last call logged the extreme-P/L warning for the holding of this name
WarnedFor(securityName) ==
    \E k \in DOMAIN logs :
        logs[k] = LogEntry(WARN, "PortfolioCalculation",
                           <<"Extreme P/L detected for", securityName>>)

\* C20: calculateInvestmentMetrics logs the extreme-P/L warning for a holding
\* if and only if |profitLossPercentage| > 100 (exactly 100 or -100 logs none),
\* and the warning neither aborts nor alters the calculation: every holding
\* gets its metrics and its percentage is the rounded ratio, beyond 100 or not.
C20_ExtremeWarningIffBeyondHundred ==
    IsMetricsCall =>
        /\ Len(metricsResult) = Len(investments)
        /\ \A i \in DOMAIN investments :
              LET m == metricsResult[i]
                  pv == InTarget(investments[i].purchasePrice, investments[i])
              IN  /\ WarnedFor(investments[i].securityName)
                        <=> (Gt(m.profitLossPercentage, Num(100))
                             \/ Lt(m.profitLossPercentage, Num(-100)))
                  /\ m = MetricsOf(<<investments[i]>>)[1]
                  /\ Gt(pv, Zero) =>
                        IsRoundedTo2(m.profitLossPercentage,
                                     Div(Mul(Num(100), m.profitLoss), pv))

\* one holding at exactly -100 per cent without a warning, another beyond 100
\* per cent with its warning and its percentage kept
C20_Witness ==
    /\ IsMetricsCall
    /\ \E i \in DOMAIN investments :
          /\ metricsResult[i].profitLossPercentage = Num(-100)
          /\ ~WarnedFor(investments[i].securityName)
    /\ \E i \in DOMAIN investments :
          /\ Gt(MathAbs(metricsResult[i].profitLossPercentage), Num(100))
          /\ WarnedFor(investments[i].securityName)

(***************************************************************************)
(* Holding age and annualized return, checked under SpecDays.              *)
(***************************************************************************)
\* d is the number of whole days from the midnight of investmentDate to now
IsWholeDaysBetween(d, investmentDate, now) ==
    /\ 2 * d <= now - 2 * investmentDate
    /\ now - 2 * investmentDate < 2 * d + 2

\* C21: daysSinceInvestment is the floor of (now - investmentDate) in whole
\* days, negative for a future date; annualizedReturn is undefined exactly when
\* daysSinceInvestment <= 36 and is a number, never 0 substituted for
\* undefined, from 37 days on.
C21_DaysAreFlooredAndShortAgesUndefined ==
    IsMetricsCall =>
        \A i \in DOMAIN investments :
            LET m == metricsResult[i]
            IN  /\ IsWholeDaysBetween(m.daysSinceInvestment,
                                      investments[i].investmentDate, clock)
                /\ (m.annualizedReturn = Undefined) <=> (m.daysSinceInvestment <= 36)
                /\ m.daysSinceInvestment >= 37 =>
                      m.annualizedReturn =
                          <<m.profitLossPercentage[1], m.profitLossPercentage[2],
                            m.daysSinceInvestment>>

\* a holding aged exactly 36 days, the oldest without an annualized return
C21_Witness ==
    /\ IsMetricsCall
    /\ metricsResult[1].daysSinceInvestment = 36
    /\ metricsResult[1].annualizedReturn = Undefined

(***************************************************************************)
(* Determinism of the public operations, checked under SpecPublic.         *)
(***************************************************************************)
\* a step that makes a call returns what the operation returns, on the same
\* arguments and rate table, at each of the given moments
CallReturnsAsAt(moments) ==
    clock' = clock =>
        /\ call'.op = "convert" =>
              result' = convert(exchangeRates, call'.args[1], call'.args[2],
                                call'.args[3]).value
        /\ call'.op = "calculateInvestmentMetrics" =>
              \A now \in moments :
                  metricsResult' =
                      calculateInvestmentMetrics(investments, baseCurrency,
                                                 exchangeRates, now).value
        /\ call'.op = "calculatePortfolioMetrics" =>
              \A now \in moments :
                  portfolioMetrics' =
                      calculatePortfolioMetrics(investments, baseCurrency,
                                                exchangeRates, now).value
        /\ call'.op = "generatePortfolioSuggestions" =>
              suggestions' = generatePortfolioSuggestions(
                                 call'.args[1], call'.args[2], call'.args[3])

\* C22 as stated: each of the four operations returns the same result for the
\* same arguments and rate table at whatever moment it is called.
C22_Original_SameResultAtAnyMoment == [][CallReturnsAsAt(Moments)]_vars

\* C22: each of the four operations returns the same result for the same
\* arguments and rate table, whatever calls were made and whatever was logged
\* before, at every moment of the same calendar day; convert and the
\* suggestions do not depend on the moment at all.
C22_SameResultWithinTheDay == [][CallReturnsAsAt(SameDay(clock))]_vars

\* holding metrics computed in the second half of a day, after an earlier
\* conversion and with the logger recording at either level
C22_Witness ==
    /\ IsMetricsCall
    /\ clock % 2 = 1
    /\ result # Undefined
    /\ Len(metricsResult) > 0
    /\ Len(logs) > 0

(***************************************************************************)
(* Properties of the market-data service, checked under SpecMarket.        *)
(***************************************************************************)
IsGetCurrentPriceCall == call.op = "getCurrentPrice"
IsUpdateAllPricesCall == call.op = "updateAllPrices"

\* what provider p yields at present
YieldOf(p) == getRealTimePrice(p, replies[p], polygonApiKey)

\* p yields a price that is not null and is above 0
Usable(p) == YieldOf(p) # Null /\ Gt(YieldOf(p), Zero)

\* the providers that support the exchange of a holding
SupportingProviders(investment) ==
    {p \in ProviderNames :
        supportsExchange(p, getExchangeForSymbol(investment.securityName,
                                                 investment.country))}

NoUsablePrice(investment) ==
    \A p \in SupportingProviders(investment) : ~Usable(p)

\* C23: when no provider that supports the holding's exchange yields a usable
\* price, getCurrentPrice yields null, and after updateAllPrices a holding with
\* no previous currentPrice has currentPrice = purchasePrice and a computed
\* profit/loss of zero.
C23_NoPriceFallsBackToPurchasePrice ==
    /\ IsGetCurrentPriceCall /\ NoUsablePrice(call.args[1]) => result = Null
    /\ IsUpdateAllPricesCall =>
          \A i \in DOMAIN investments :
              NoUsablePrice(investments[i]) /\ investments[i].currentPrice = Undefined =>
                  /\ result[i].currentPrice = investments[i].purchasePrice
                  /\ calculateInvestmentMetrics(<<result[i]>>, baseCurrency,
                                                exchangeRates, clock).value[1].profitLoss
                        = Zero

\* the place of a provider in the fixed order
Rank(p) ==
    CASE p = "Alpha Vantage" -> 1
      [] p = "Polygon" -> 2
      [] p = "Yahoo Finance" -> 3

\* C24: getCurrentPrice asks the providers in the order Alpha Vantage, Polygon,
\* Yahoo Finance, skipping those that do not support the holding's exchange; a
\* provider whose fetch throws or that yields null or a price <= 0 does not
\* stop the search; the price returned is that of the first provider asked
\* that yields a price > 0, and no provider is asked after it.
C24_ProvidersAskedInOrderUntilFirstPrice ==
    IsGetCurrentPriceCall =>
        LET supporting == SupportingProviders(call.args[1])
            asked == {queried[k] : k \in DOMAIN queried}
        IN  /\ asked \subseteq supporting
            /\ \A j, k \in DOMAIN queried : j < k => Rank(queried[j]) < Rank(queried[k])
            /\ \A p \in supporting :
                  p \in asked <=>
                      \A earlier \in supporting : Rank(earlier) < Rank(p) => ~Usable(earlier)
            /\ \A p \in asked :
                  Usable(p) => /\ p = queried[Len(queried)]
                               /\ result = YieldOf(p)

\* Alpha Vantage's fetch throws, Polygon yields no usable price, and the price
\* is Yahoo Finance's
C24_Witness ==
    /\ IsGetCurrentPriceCall
    /\ queried = <<"Alpha Vantage", "Polygon", "Yahoo Finance">>
    /\ replies["Alpha Vantage"].throws
    /\ ~Usable("Polygon")
    /\ Usable("Yahoo Finance")
    /\ result = YieldOf("Yahoo Finance")

(***************************************************************************)
(* Diversification against the number of kinds, checked under              *)
(* SpecPortfolio.                                                          *)
(***************************************************************************)
RelabelTypes == <<"Stock", "Bond", "Crypto", "ETF", "Mutual Fund", "Real Estate">>

\* the same holdings with the same current values, spread over the given
\* numbers of categories, countries and currencies
Relabelled(investmentsWithMetrics, typeCount, countryCount, currencyCount) ==
    [i \in DOMAIN investmentsWithMetrics |->
        [investmentsWithMetrics[i] EXCEPT
            !.securityType = RelabelTypes[((i - 1) % typeCount) + 1],
            !.country = countryCycle[((i - 1) % countryCount) + 1],
            !.currency = currencyCycle[((i - 1) % currencyCount) + 1]]]

\* the numbers of kinds a portfolio of this size can be spread over
SpreadCounts(size) == {n \in {1, 2, 4, 5, 6} : n <= size}

\* at least as many of each kind
AtLeastAsSpread(a, b) == a[1] >= b[1] /\ a[2] >= b[2] /\ a[3] >= b[3]

\* more of one kind whose sub-score (6, 5, 4 points each) is below its cap of
\* 30, 25, 20 points
MoreBelowCap(a, b) ==
    \/ a[1] > b[1] /\ b[1] * 6 < 30
    \/ a[2] > b[2] /\ b[2] * 5 < 25
    \/ a[3] > b[3] /\ b[3] * 4 < 20

\* the portfolio P of this state against each portfolio Q of the same current
\* values; P's kinds are counted, Q's are given
ScoresFollowSpread ==
    LET P == metricsResult
        kindsOfP == <<distinctCount(P, "securityType"), distinctCount(P, "country"),
                      distinctCount(P, "currency")>>
        scoreOfP == calculateDiversificationScore(P)
    IN  \A t \in SpreadCounts(Len(P)), c \in SpreadCounts(Len(P)),
           k \in SpreadCounts(Len(P)) :
            LET kindsOfQ == <<t, c, k>>
                scoreOfQ == calculateDiversificationScore(Relabelled(P, t, c, k))
            IN  /\ AtLeastAsSpread(kindsOfP, kindsOfQ) =>
                      /\ Gte(scoreOfP, scoreOfQ)
                      /\ MoreBelowCap(kindsOfP, kindsOfQ) => Gt(scoreOfP, scoreOfQ)
                /\ AtLeastAsSpread(kindsOfQ, kindsOfP) =>
                      /\ Gte(scoreOfQ, scoreOfP)
                      /\ MoreBelowCap(kindsOfQ, kindsOfP) => Gt(scoreOfQ, scoreOfP)

\* C25: of two non-empty portfolios with the same per-holding current values,
\* the one with at least as many distinct categories, countries and currencies
\* never has the lower diversification score, and has the strictly higher one
\* when it has more of a kind whose sub-score is below its cap.
C25_MoreSpreadNeverScoresLower ==
    IsPortfolioCall /\ investments # <<>> => ScoresFollowSpread

\* the total current value of the portfolio of this state
TotalCurrentValue ==
    reduceSum(Zero, [i \in DOMAIN metricsResult |-> metricsResult[i].currentValue])

\* the same for the portfolios whose total current value is not 0
C25_MoreSpreadNeverScoresLowerUnlessWorthless ==
    IsPortfolioCall /\ investments # <<>> /\ TotalCurrentValue # Zero =>
        ScoresFollowSpread

(***************************************************************************)
(* Risk of a portfolio in one country and one currency, checked under      *)
(* SpecPortfolio.                                                          *)
(***************************************************************************)
\* every holding of the last call has a positive current value, and all are
\* in one country and one currency
OneCountryOneCurrency ==
    /\ IsPortfolioCall
    /\ investments # <<>>
    /\ \A i \in DOMAIN metricsResult : Gt(metricsResult[i].currentValue, Zero)
    /\ distinctCount(investments, "country") = 1
    /\ distinctCount(investments, "currency") = 1

\* C28: a non-empty portfolio of holdings with positive current values, all in
\* one country and one currency, has a risk score of at least 45 and so a
\* riskLevel of Medium or High, never Low; a single holding is High when it is
\* a Stock or Crypto and Medium otherwise.
C28_OneCountryOneCurrencyIsNeverLowRisk ==
    OneCountryOneCurrency =>
        /\ portfolioMetrics.riskLevel \in {"Medium", "High"}
        /\ Gte(riskScore(metricsResult, portfolioMetrics.diversificationScore), Num(45))
        /\ Len(investments) = 1 =>
              portfolioMetrics.riskLevel =
                  IF investments[1].securityType \in {"Stock", "Crypto"} THEN "High"
                  ELSE "Medium"

\* five holdings of five categories, none a Stock or Crypto: the risk score is
\* exactly 45
C28_Witness ==
    /\ OneCountryOneCurrency
    /\ Len(investments) = 5
    /\ riskScore(metricsResult, portfolioMetrics.diversificationScore) = Num(45)
    /\ portfolioMetrics.riskLevel = "Medium"

(***************************************************************************)
(* Properties of the dashboard, checked under SpecDashboard and            *)
(* SpecDashboardFair.                                                      *)
(***************************************************************************)
\* no handler is running and the user makes no further input
HandlersDone == mountLoad = "done" /\ upload.pos = "idle" /\ inputsLeft = 0

\* the portfolio is loaded, not empty, and at least one type is selected
LoadedWithTypesSelected ==
    HandlersDone /\ Len(investments) > 0 /\ Len(selectedTypes) > 0

\* no calculation is pending and no state update awaits its render
Quiescent == pendingCalcs = <<>> /\ ~renderPending

\* C30: from a loaded, non-empty portfolio with a type selected and no further
\* user input, the dashboard eventually has no pending metrics calculation and
\* no state update left to render.
C30_RecalculationEventuallyStops == LoadedWithTypesSelected ~> Quiescent

\* handleCSVUpload has run to its end through the 'Add More Investments' card
\* and has stored the file's rows
UploadedThroughAddMore ==
    /\ upload.pos = "idle"
    /\ upload.outcome = "loaded"
    /\ upload.control = "Add More Investments"

\* C26: after an upload through 'Add More Investments' completes, the stored
\* investments are those stored before the upload followed by the uploaded rows.
C26_AddMoreKeepsWhatWasStored ==
    UploadedThroughAddMore =>
        stored = upload.before.stored \o upload.validInvestments

\* validateCSVRow reports an error for some line of the file
SomeRowFailsValidation(file) ==
    \E i \in DOMAIN file : validateCSVRow(rowOf(templateHeaders, file[i])) # <<>>

\* the lines of the file that have all seven fields, in order
KeptLines(file) ==
    SelectSeq(file, LAMBDA line : /\ Len(line) >= Len(templateHeaders)
                                  /\ \A i \in DOMAIN templateHeaders : line[i] # "")

\* the positions, among the kept lines, of those validateCSVRow reports an error for
FailingKeptRows(file) ==
    {i \in DOMAIN KeptLines(file) :
        validateCSVRow(rowOf(templateHeaders, KeptLines(file)[i])) # <<>>}

\* a step of handleCSVUpload, or of the loadInvestments it awaits
UploadStep == upload.pos # "idle" /\ upload' # upload

\* the step in which handleCSVUpload finishes
UploadFinishes == upload.pos # "idle" /\ upload'.pos = "idle"

\* the step leaves the table, the holdings in memory and the metrics alone
WritesNothing ==
    /\ stored' = stored
    /\ investments' = investments
    /\ portfolioMetrics' = portfolioMetrics

\* the error message set lists exactly the rows numbered position + 1
ErrorLists(positions) ==
    /\ error'.message = "Validation errors:"
    /\ {error'.lines[k].row : k \in DOMAIN error'.lines} = {i + 1 : i \in positions}

currentMetrics ==
    calculatePortfolioMetrics(filteredInvestments(investments, selectedTypes),
                              selectedCurrency, exchangeRates, clock).value

\* C29: when no metrics calculation is pending, no handler is running and the
\* last state update has been rendered, the PortfolioMetrics displayed are those
\* of the currently filtered holdings in the currently selected currency.
C29_DisplayedMetricsAreForTheSelection ==
    (/\ pendingCalcs = <<>>
     /\ ~renderPending
     /\ mountLoad = "done"
     /\ upload.pos = "idle"
     /\ portfolioMetrics # NullMetrics) =>
        portfolioMetrics = currentMetrics
====
